---- MODULE Spec2Model ----
(***************************************************************************)
(* Grading of test groups (bin/grading.py): the test data tree, the        *)
(* inherited testdata settings and the upward inference of grades from     *)
(* testcases to the root.  Expectations for a submission                   *)
(* (bin/expectations.py): their construction from a declarative            *)
(* specification and the lookup of the verdicts and scores expected for a  *)
(* node.                                                                   *)
(*                                                                         *)
(* Encoding.  A node is the sequence of the components of its path:        *)
(* "secret/g/1" is <<"secret","g","1">> and the root "." is <<>>.  A score *)
(* is an integer; the settings' numerals ('1', '12') are modelled by their *)
(* value.  The grade of a node that has none yet (Python's None) is the    *)
(* record None.  A Python tuple, which has neither a .verdict nor a .score *)
(* attribute, is a record with the one field `tuple`.                      *)
(***************************************************************************)
EXTENDS Integers, Sequences, FiniteSets, TLC

VARIABLES
    leaves,             \* TestDataTree.leaves: the testcase paths
    testdata_settings,  \* the constructor's argument: explicit settings of some groups
    settings,           \* TestDataTree.settings: the settings of every internal node
    grades,             \* Grades.grades: node -> None or a grade
    result,             \* the last call: how it ended and what it yielded
    grader,             \* how a run of the default grader ends at present
    expectations,       \* Expectations(expectations=...): str, list, dict or None
    expected_results,   \* Expectations(expected_results=...): list or None
    dirname,            \* Expectations(dirname=...): str or None
    specified,          \* the Expectations object: _specified_verdicts, _specified_scores
    Grades_expectations, \* Grades.expectations: the Expectation of every node
    iterators           \* the generators made by set_grade that are held by a caller

\* the variables of the Expectations
expectVars ==
    <<expectations, expected_results, dirname, specified, Grades_expectations>>

vars ==
    <<leaves, testdata_settings, settings, grades, result, grader, expectVars, iterators>>

----------------------------------------------------------------------------
(* Bounds *)

MaxLeaves == 3      \* number of testcases of a tree
MaxGiven == 2       \* number of settings given explicitly, over all nodes
MaxGrades == 2      \* length of a list of grades handed to aggregate directly
MaxSpecified == 2   \* number of nodes that the declarative expectations name

----------------------------------------------------------------------------
(* Python values: a str, a list, a dict in the order of its keys, None *)

Str(s) == [str |-> s]

List(l) == [list |-> l]

\* a dict is the sequence of its items <<key, value>>
Dict(items) == [dict |-> items]

NoneArg == [none |-> "None"]

IsStr(x) == DOMAIN x = {"str"}

IsList(x) == DOMAIN x = {"list"}

IsDict(x) == DOMAIN x = {"dict"}

IsNone(x) == DOMAIN x = {"none"}

\* no Expectations are under construction or built
NoExpectations ==
    /\ expectations = NoneArg
    /\ expected_results = NoneArg
    /\ dirname = NoneArg
    /\ specified = NoneArg
    /\ Grades_expectations = NoneArg

----------------------------------------------------------------------------
(* Paths *)

root == <<>>

\* The components used, in the order of Python's string comparison.
NameOrder == <<"10", "2", "g", "sample", "secret">>

Rank(name) == CHOOSE i \in 1..Len(NameOrder) : NameOrder[i] = name

\* Mutant: names that are numerals are compared by their value, 2 before 10.
StrLess_numeric(a, b) ==
    LET NumericOrder == <<"2", "10", "g", "sample", "secret">>
        rank(name) == CHOOSE i \in 1..Len(NumericOrder) : NumericOrder[i] = name
    IN rank(a[Len(a)]) < rank(b[Len(b)])

\* a < b for two children of one node: their strings share the parent's
\* prefix, so the comparison is decided by the last component.
StrLess(a, b) == Rank(a[Len(a)]) < Rank(b[Len(b)])

parent(node) == IF node = root THEN root ELSE SubSeq(node, 1, Len(node) - 1)

\* Path(p).parents: every proper prefix, the root included.
Parents(p) == { SubSeq(p, 1, k) : k \in 0..(Len(p) - 1) }

ancestors(paths) == UNION { Parents(p) : p \in paths }

\* The testcase paths a tree is built from.
CasePaths ==
    { <<"sample", "2">>, <<"secret", "10">>, <<"secret", "2">>, <<"secret", "g", "2">> }

\* Some paths that are not testcases of any tree: a name not in the data.
UnknownPaths == { <<"secret", "sample">> }

----------------------------------------------------------------------------
(* TestDataTree *)

Nodes(lv) == lv \cup ancestors(lv)

RECURSIVE SortedSeq(_)
SortedSeq(S) ==
    IF S = {} THEN <<>>
    ELSE LET m == CHOOSE x \in S : \A y \in S \ {x} : StrLess(x, y)
         IN <<m>> \o SortedSeq(S \ {m})

\* TestDataTree.children[node], sorted lexicographically
Children(lv, node) ==
    SortedSeq({ n \in Nodes(lv) : n # root /\ parent(n) = node })

\* TestDataTree.__iter__: the queue starts as ['.'] and grows by the
\* children of every node taken from it that is not a testcase
RECURSIVE Bfs(_, _, _)
Bfs(lv, queue, i) ==
    IF i > Len(queue) THEN queue
    ELSE Bfs(lv,
             IF queue[i] \notin lv THEN queue \o Children(lv, queue[i]) ELSE queue,
             i + 1)

TreeIter(lv) == Bfs(lv, <<root>>, 1)

Verdicts == {"AC", "WA", "TLE", "RTE", "JE"}

\* the verdicts given to testcases
CaseVerdicts == {"AC", "WA", "TLE"}

defaults ==
    [accept_score |-> 1, grader_flags |-> "", on_reject |-> "break",
     range |-> "-inf inf", reject_score |-> 0]

SettingKeys == DOMAIN defaults

\* Python's dict union a | b: b's keys win, a's other keys stay.
DictUnion(a, b) ==
    [k \in (DOMAIN a) \cup (DOMAIN b) |-> IF k \in DOMAIN b THEN b[k] ELSE a[k]]

\* settings.get(node) or {}
GetOr(given, node) == IF node \in DOMAIN given THEN given[node] ELSE <<>>

\* Mutant: the settings given for a node are laid over the defaults, not
\* over the settings of its parent.
NodeSettings_over_defaults(given, node) ==
    DictUnion(defaults, GetOr(given, node))

RECURSIVE NodeSettings(_, _)
NodeSettings(given, node) ==
    IF node = root
    THEN DictUnion(defaults, GetOr(given, root))
    ELSE DictUnion(NodeSettings(given, parent(node)), GetOr(given, node))

\* TestDataTree.settings: one entry for every internal node
TreeSettings(lv, given) ==
    [node \in ancestors(lv) |-> NodeSettings(given, node)]

\* Mutant: the settings of the root, whatever the node.
get_settings_of_root(node) == settings[root]

get_settings(node) == settings[IF node \in leaves THEN parent(node) ELSE node]

----------------------------------------------------------------------------
(* Grades *)

None == [score |-> 0, verdict |-> "None"]

Grade(verdict, score) == [score |-> score, verdict |-> verdict]

\* a tuple (verdict, score) where the code otherwise has a Grade; the score
\* is <<>> for None and <<s>> for the number s
PyTuple(a, b) == [tuple |-> <<a, b>>]

IsTuple(x) == DOMAIN x = {"tuple"}

is_accepted(g, node) == g[node] # None /\ g[node].verdict = "AC"

is_rejected(g, node) == g[node] # None /\ g[node].verdict # "AC"


----------------------------------------------------------------------------
(* The default grader, support/default_grader.py, run as a subprocess *)

\* grader_flags.split() for the flag strings used
Split(grader_flags) ==
    CASE grader_flags = "" -> {}
      [] grader_flags = "min" -> {"min"}
      [] grader_flags = "first_error" -> {"first_error"}
      [] grader_flags = "max" -> {"max"}
      [] grader_flags = "accept_if_any_accepted" -> {"accept_if_any_accepted"}
      [] grader_flags = "max accept_if_any_accepted" -> {"max", "accept_if_any_accepted"}
      [] grader_flags = "always_accept" -> {"always_accept"}
      [] grader_flags = "accept_if_any_accepted always_accept" ->
            {"accept_if_any_accepted", "always_accept"}
      [] grader_flags = "ignore_sample" -> {"ignore_sample"}

\* verdicts by badness: JE > RTE > TLE > WA > AC
Badness(verdict) ==
    CASE verdict = "AC" -> 0
      [] verdict = "WA" -> 1
      [] verdict = "TLE" -> 2
      [] verdict = "RTE" -> 3
      [] verdict = "JE" -> 4

RECURSIVE SumScores(_)
SumScores(gs) == IF gs = <<>> THEN 0 ELSE gs[1].score + SumScores(Tail(gs))

MinScore(gs) ==
    CHOOSE s \in { gs[i].score : i \in DOMAIN gs } :
        \A i \in DOMAIN gs : s <= gs[i].score

MaxScoreOf(gs) ==
    CHOOSE s \in { gs[i].score : i \in DOMAIN gs } :
        \A i \in DOMAIN gs : s >= gs[i].score

\* The grader's answer on a non-empty list of grades: the verdict is the
\* worst one (the first rejected one with first_error; AC with
\* accept_if_any_accepted when some grade is AC), the score the sum of the
\* scores (their minimum or maximum with min, max).
default_grader(gs, flags) ==
    LET rejected == { i \in DOMAIN gs : gs[i].verdict # "AC" }
        first == CHOOSE i \in rejected : \A j \in rejected : i <= j
        worst == CHOOSE i \in rejected :
                    \A j \in rejected : Badness(gs[i].verdict) >= Badness(gs[j].verdict)
        verdict ==
            IF rejected = {} THEN "AC"
            ELSE IF "accept_if_any_accepted" \in flags /\ rejected # DOMAIN gs THEN "AC"
            ELSE IF "first_error" \in flags THEN gs[first].verdict
            ELSE gs[worst].verdict
        score ==
            IF "min" \in flags THEN MinScore(gs)
            ELSE IF "max" \in flags THEN MaxScoreOf(gs)
            ELSE SumScores(gs)
    IN [verdict |-> verdict, score |-> score]

\* how a run of the grader ends: it answers in time, with exit code 0 and a
\* well-formed line of a verdict and a score, or it fails in one of three ways
GraderRuns == {"answers", "timeout", "exit code", "invalid format"}

\* the grade of a well-formed answer; the tuple ('JE', None) after a timeout,
\* an exit code other than 0 or an answer of invalid format
call_default_grader(gs, grader_flags) ==
    IF grader # "answers" THEN PyTuple("JE", <<>>)
    ELSE LET out == default_grader(gs, Split(grader_flags))
         IN Grade(out.verdict, out.score)

\* Mutant: the grades after the first rejected one are kept.
BreakPrefix_whole(gs) == gs

\* grades[: first_rejection + 1], or all of them when none is rejected
BreakPrefix(gs) ==
    LET rejected == { i \in DOMAIN gs : gs[i].verdict # "AC" }
    IN IF rejected = {} THEN gs
       ELSE SubSeq(gs, 1, CHOOSE i \in rejected : \A j \in rejected : i <= j)

\* Mutant: the grader is run for the empty list too, which it accepts with
\* score 0.
aggregate_runs_grader(path, gs, st) ==
    IF gs = <<>>
    THEN (IF grader # "answers" THEN PyTuple("JE", <<>>) ELSE PyTuple("AC", <<0>>))
    ELSE call_default_grader(
            IF st.on_reject = "break" THEN BreakPrefix(gs) ELSE gs,
            st.grader_flags)

\* the empty list is answered by the tuple ('AC', 0)
aggregate(path, gs, st) ==
    IF gs = <<>> THEN PyTuple("AC", <<0>>)
    ELSE call_default_grader(
            IF st.on_reject = "break" THEN BreakPrefix(gs) ELSE gs,
            st.grader_flags)

----------------------------------------------------------------------------
(* bin/testgroups.py: grades are tuples (verdict, score) with the verdict   *)
(* in its long form                                                        *)

short_verdict(verdict) ==
    CASE verdict = "ACCEPTED" -> "AC"
      [] verdict = "WRONG_ANSWER" -> "WA"
      [] verdict = "JUDGE_ERROR" -> "JE"
      [] verdict = "TIME_LIMIT_EXCEEDED" -> "TLE"
      [] verdict = "RUN_TIME_ERROR" -> "RTE"

long_verdict(verdict) ==
    CASE verdict = "AC" -> "ACCEPTED"
      [] verdict = "WA" -> "WRONG_ANSWER"
      [] verdict = "JE" -> "JUDGE_ERROR"
      [] verdict = "TLE" -> "TIME_LIMIT_EXCEEDED"
      [] verdict = "RTE" -> "RUN_TIME_ERROR"

\* the grader is run without flags on the verdicts in their short form
testgroups_call_default_grader(gs) ==
    IF grader # "answers" THEN PyTuple("JUDGE_ERROR", <<>>)
    ELSE LET out == default_grader(
                        [i \in DOMAIN gs |->
                            [verdict |-> short_verdict(gs[i].tuple[1]),
                             score |-> gs[i].tuple[2][1]]],
                        {})
         IN PyTuple(long_verdict(out.verdict), <<out.score>>)

testgroups_aggregate(path, gs) ==
    IF gs = <<>> THEN PyTuple("ACCEPTED", <<0>>)
    ELSE testgroups_call_default_grader(gs)

----------------------------------------------------------------------------
(* Grades._infer_grade_upwards *)

\* min(i for i, sib in enumerate(siblings) if is_rejected(sib)), default len;
\* positions count from 1 here, so the default is Len + 1
first_error_idx(g, siblings) ==
    LET rejected == { i \in DOMAIN siblings : is_rejected(g, siblings[i]) }
    IN IF rejected = {} THEN Len(siblings) + 1
       ELSE CHOOSE i \in rejected : \A j \in rejected : i <= j

\* Mutant: on_reject: break infers as soon as any sibling is rejected,
\* whatever precedes it.
CanInfer_any_rejected(g, siblings, st) ==
    \/ \A i \in DOMAIN siblings : g[siblings[i]] # None
    \/ /\ st.on_reject = "break"
       /\ first_error_idx(g, siblings) <= Len(siblings)

\* Mutant: the parent is inferred only when every sibling is graded.
CanInfer_all_graded(g, siblings, st) ==
    \A i \in DOMAIN siblings : g[siblings[i]] # None

\* the condition under which the parent's grade is inferred
CanInfer(g, siblings, st) ==
    \/ \A i \in DOMAIN siblings : g[siblings[i]] # None
    \/ /\ st.on_reject = "break"
       /\ \A i \in 1..(first_error_idx(g, siblings) - 1) : is_accepted(g, siblings[i])

\* [self[sib] for sib in siblings if self[sib] is not None]
RECURSIVE GradedOf(_, _)
GradedOf(g, siblings) ==
    IF siblings = <<>> THEN <<>>
    ELSE (IF g[Head(siblings)] # None THEN <<g[Head(siblings)]>> ELSE <<>>)
         \o GradedOf(g, Tail(siblings))

\* Mutant: the parent is inferred, but the inference is not continued from it.
infer_grade_one_level(lv, st, g, node) ==
    IF node = root
    THEN [grades |-> g, yielded |-> <<>>, outcome |-> "ok"]
    ELSE LET par == parent(node)
             siblings == Children(lv, par)
         IN IF ~CanInfer(g, siblings, st[par]) \/ g[par] # None
            THEN [grades |-> g, yielded |-> <<>>, outcome |-> "ok"]
            ELSE LET aggregated_grade == aggregate(par, GradedOf(g, siblings), st[par])
                 IN [grades |-> [g EXCEPT ![par] = aggregated_grade],
                     yielded |-> <<<<par, aggregated_grade>>>>,
                     outcome |-> "ok"]

\* self[parent] != aggregated_grade: two tuples are compared as tuples, two
\* Grades by Grade.__eq__; a tuple and a Grade end in Grade.__eq__, which
\* reads .score of the tuple
GradesDiffer(a, b) ==
    IF IsTuple(a) # IsTuple(b) THEN "AttributeError"
    ELSE IF a # b THEN "ValueError: inferred grade differs"
    ELSE "ok"

\* Mutant: a parent that has a grade equal to the inferred one is yielded
\* again.
RECURSIVE infer_grade_upwards_reyields(_, _, _, _)
infer_grade_upwards_reyields(lv, st, g, node) ==
    IF node = root
    THEN [grades |-> g, yielded |-> <<>>, outcome |-> "ok"]
    ELSE LET par == parent(node)
             siblings == Children(lv, par)
         IN IF \E i \in DOMAIN siblings : IsTuple(g[siblings[i]])
            THEN [grades |-> g, yielded |-> <<>>, outcome |-> "AttributeError"]
            ELSE IF ~CanInfer(g, siblings, st[par])
            THEN [grades |-> g, yielded |-> <<>>, outcome |-> "ok"]
            ELSE LET aggregated_grade == aggregate(par, GradedOf(g, siblings), st[par])
                 IN IF g[par] # None
                    THEN [grades |-> g, yielded |-> <<<<par, aggregated_grade>>>>,
                          outcome |-> GradesDiffer(g[par], aggregated_grade)]
                    ELSE LET up == infer_grade_upwards_reyields(
                                      lv, st, [g EXCEPT ![par] = aggregated_grade], par)
                         IN [grades |-> up.grades,
                             yielded |-> <<<<par, aggregated_grade>>>> \o up.yielded,
                             outcome |-> up.outcome]

\* The run of the generator from `node` on grades g: the grades it leaves,
\* the pairs it yields and how it ends.  is_rejected is called for every
\* sibling first, and reads .verdict of whatever the sibling has for a grade.
RECURSIVE infer_grade_upwards(_, _, _, _)
infer_grade_upwards(lv, st, g, node) ==
    IF node = root
    THEN [grades |-> g, yielded |-> <<>>, outcome |-> "ok"]
    ELSE LET par == parent(node)
             siblings == Children(lv, par)
         IN IF \E i \in DOMAIN siblings : IsTuple(g[siblings[i]])
            THEN [grades |-> g, yielded |-> <<>>, outcome |-> "AttributeError"]
            ELSE IF ~CanInfer(g, siblings, st[par])
            THEN [grades |-> g, yielded |-> <<>>, outcome |-> "ok"]
            ELSE LET aggregated_grade == aggregate(par, GradedOf(g, siblings), st[par])
                 IN IF g[par] # None
                    THEN [grades |-> g, yielded |-> <<>>,
                          outcome |-> GradesDiffer(g[par], aggregated_grade)]
                    ELSE LET up == infer_grade_upwards(
                                      lv, st, [g EXCEPT ![par] = aggregated_grade], par)
                         IN [grades |-> up.grades,
                             yielded |-> <<<<par, aggregated_grade>>>> \o up.yielded,
                             outcome |-> up.outcome]

----------------------------------------------------------------------------
(* Grades.set_grade, run to its end as __setitem__ does *)

\* the grade argument: a verdict string, or a Grade
StrArg(verdict) == [isstr |-> TRUE, score |-> 0, verdict |-> verdict]
GradeArg(verdict, score) == [isstr |-> FALSE, score |-> score, verdict |-> verdict]

\* the grades given to testcases: a bare verdict, or a Grade with its score
GradeArgs == { StrArg(v) : v \in CaseVerdicts } \cup { GradeArg("AC", 2) }

\* two of them: an accepting and a rejecting bare verdict
IteratedGrades == { StrArg("AC"), StrArg("WA") }

\* isinstance(grade, str): the score comes from the settings of the testcase
AsGrade(testcase, grade) ==
    IF grade.isstr
    THEN Grade(grade.verdict,
               IF grade.verdict = "AC" THEN get_settings(testcase).accept_score
               ELSE get_settings(testcase).reject_score)
    ELSE Grade(grade.verdict, grade.score)

\* Mutant: a testcase that has a grade is given the new one.
set_grade_overwrite(testcase, grade) ==
    IF testcase \notin leaves
    THEN [grades |-> grades, yielded |-> <<>>, outcome |-> "KeyError"]
    ELSE LET gr == AsGrade(testcase, grade)
             up == infer_grade_upwards(
                      leaves, settings, [grades EXCEPT ![testcase] = gr], testcase)
         IN [grades |-> up.grades,
             yielded |-> <<<<testcase, gr>>>> \o up.yielded,
             outcome |-> up.outcome]

\* Mutant: giving a testcase the grade it has is accepted and does nothing.
set_grade_same_is_noop(testcase, grade) ==
    IF testcase \notin leaves
    THEN [grades |-> grades, yielded |-> <<>>, outcome |-> "KeyError"]
    ELSE IF grades[testcase] # None
    THEN [grades |-> grades, yielded |-> <<>>,
          outcome |-> IF grades[testcase] = AsGrade(testcase, grade)
                      THEN "ok" ELSE "ValueError: already set"]
    ELSE LET gr == AsGrade(testcase, grade)
             up == infer_grade_upwards(
                      leaves, settings, [grades EXCEPT ![testcase] = gr], testcase)
         IN [grades |-> up.grades,
             yielded |-> <<<<testcase, gr>>>> \o up.yielded,
             outcome |-> up.outcome]

\* Mutant: every node of the tree is accepted, not only the testcases.
set_grade_any_node(testcase, grade) ==
    IF testcase \notin Nodes(leaves)
    THEN [grades |-> grades, yielded |-> <<>>, outcome |-> "KeyError"]
    ELSE IF grades[testcase] # None
    THEN [grades |-> grades, yielded |-> <<>>, outcome |-> "ValueError: already set"]
    ELSE LET gr == Grade(grade.verdict, grade.score)
             up == infer_grade_upwards(
                      leaves, settings, [grades EXCEPT ![testcase] = gr], testcase)
         IN [grades |-> up.grades,
             yielded |-> <<<<testcase, gr>>>> \o up.yielded,
             outcome |-> up.outcome]

\* Mutant: the grade goes to every testcase with the same file name.
set_grade_same_name(testcase, grade) ==
    IF testcase \notin leaves
    THEN [grades |-> grades, yielded |-> <<>>, outcome |-> "KeyError"]
    ELSE IF grades[testcase] # None
    THEN [grades |-> grades, yielded |-> <<>>, outcome |-> "ValueError: already set"]
    ELSE LET gr == AsGrade(testcase, grade)
             given == [node \in DOMAIN grades |->
                         IF node \in leaves /\ node[Len(node)] = testcase[Len(testcase)]
                         THEN gr ELSE grades[node]]
             up == infer_grade_upwards(leaves, settings, given, testcase)
         IN [grades |-> up.grades,
             yielded |-> <<<<testcase, gr>>>> \o up.yielded,
             outcome |-> up.outcome]

set_grade(testcase, grade) ==
    IF testcase \notin leaves
    THEN [grades |-> grades, yielded |-> <<>>, outcome |-> "KeyError"]
    ELSE IF grades[testcase] # None
    THEN [grades |-> grades, yielded |-> <<>>, outcome |-> "ValueError: already set"]
    ELSE LET gr == AsGrade(testcase, grade)
             up == infer_grade_upwards(
                      leaves, settings, [grades EXCEPT ![testcase] = gr], testcase)
         IN [grades |-> up.grades,
             yielded |-> <<<<testcase, gr>>>> \o up.yielded,
             outcome |-> up.outcome]

SetItem(testcase, grade) ==
    LET run == set_grade(testcase, grade)
    IN /\ grades' = run.grades
       /\ result' = [outcome |-> run.outcome, yielded |-> run.yielded]
       /\ UNCHANGED <<iterators, leaves, testdata_settings, settings, grader, expectVars>>

----------------------------------------------------------------------------
(* The queries of Grades.  A call returns a value or raises an exception;  *)
(* Python's None is returned as "None" for a verdict and as <<>> for a     *)
(* score, and a score s as <<s>>.                                          *)

Return(value) == [value |-> value]

Raise(exception) == [exception |-> exception]

\* Grades.verdict(node)
Grades_verdict(node) ==
    IF grades[node] = None THEN Return("None")
    ELSE IF IsTuple(grades[node]) THEN Raise("AttributeError")
    ELSE Return(grades[node].verdict)

\* Grades.score(node)
Grades_score(node) ==
    IF grades[node] = None THEN Return(<<>>)
    ELSE IF IsTuple(grades[node]) THEN Raise("AttributeError")
    ELSE Return(<<grades[node].score>>)

\* Grades.is_accepted(node)
Grades_is_accepted(node) ==
    IF grades[node] # None /\ IsTuple(grades[node]) THEN Raise("AttributeError")
    ELSE Return(is_accepted(grades, node))

\* Grades.is_rejected(node)
Grades_is_rejected(node) ==
    IF grades[node] # None /\ IsTuple(grades[node]) THEN Raise("AttributeError")
    ELSE Return(is_rejected(grades, node))

----------------------------------------------------------------------------
(* Construction: Grades(testcases, testdata_settings=...) *)

\* settings given explicitly for one group in testdata.yaml
Overrides ==
    { [grader_flags |-> "first_error", on_reject |-> "continue"],
      [grader_flags |-> "min"],
      [accept_score |-> 2, reject_score |-> 1] }

Trees == { lv \in SUBSET CasePaths : Cardinality(lv) \in 1..MaxLeaves }

\* testdata_settings: nothing given, or the settings of one group
Given(lv) ==
    { <<>> } \cup UNION { [{node} -> Overrides] : node \in ancestors(lv) }

Init ==
    /\ leaves \in Trees
    /\ testdata_settings \in Given(leaves)
    /\ settings = TreeSettings(leaves, testdata_settings)
    /\ grades = [node \in Nodes(leaves) |-> None]
    /\ result = [outcome |-> "new", yielded |-> <<>>]
    /\ grader = "answers"
    /\ iterators = <<>>
    /\ NoExpectations

Next ==
    \E testcase \in Nodes(leaves) \cup UnknownPaths, grade \in GradeArgs :
        SetItem(testcase, grade)

Spec == Init /\ [][Next]_vars

----------------------------------------------------------------------------
(* Grading with a default grader that may fail *)

\* The grader starts to end its runs in another way: the program hangs, is
\* replaced, is repaired.
GraderTurns(run) ==
    /\ grader # run
    /\ grader' = run
    /\ UNCHANGED <<iterators, leaves, testdata_settings, settings, grades, result, expectVars>>

InitJE ==
    /\ leaves \in Trees
    /\ testdata_settings = <<>>
    /\ settings = TreeSettings(leaves, testdata_settings)
    /\ grades = [node \in Nodes(leaves) |-> None]
    /\ result = [outcome |-> "new", yielded |-> <<>>]
    /\ grader = "answers"
    /\ iterators = <<>>
    /\ NoExpectations

NextJE ==
    \/ \E testcase \in Nodes(leaves) \cup UnknownPaths, grade \in GradeArgs :
            SetItem(testcase, grade)
    \/ \E run \in GraderRuns : GraderTurns(run)

SpecJE == InitJE /\ [][NextJE]_vars

----------------------------------------------------------------------------
(* aggregate called on its own, as the tests of the grader do *)

\* lists of at most MaxGrades grades
AggregateGrades == { Grade("AC", 1), Grade("WA", 0), Grade("TLE", 0) }

GradeLists == UNION { [1..n -> AggregateGrades] : n \in 0..MaxGrades }

\* testgroups.py gives a testcase the score 1 if it is accepted, else 0
TestgroupsGrades == { PyTuple("ACCEPTED", <<1>>), PyTuple("WRONG_ANSWER", <<0>>) }

TestgroupsGradeLists == UNION { [1..n -> TestgroupsGrades] : n \in 0..MaxGrades }

AggregateSettings ==
    { [defaults EXCEPT !.on_reject = r, !.grader_flags = f] :
        r \in {"break", "continue"}, f \in {"", "min", "first_error"} }

\* grading.aggregate(path, grades, settings)
CallAggregate(path, gs, st) ==
    /\ result' = [outcome |-> "aggregate",
                  yielded |-> <<path, gs, st, aggregate(path, gs, st)>>]
    /\ UNCHANGED <<iterators, leaves, testdata_settings, settings, grades, grader, expectVars>>

\* testgroups.aggregate(path, grades)
CallTestgroupsAggregate(path, gs) ==
    /\ result' = [outcome |-> "testgroups.aggregate",
                  yielded |-> <<path, gs, testgroups_aggregate(path, gs)>>]
    /\ UNCHANGED <<iterators, leaves, testdata_settings, settings, grades, grader, expectVars>>

InitAggregate ==
    /\ leaves = {}
    /\ testdata_settings = <<>>
    /\ settings = <<>>
    /\ grades = <<>>
    /\ result = [outcome |-> "new", yielded |-> <<>>]
    /\ grader = "answers"
    /\ iterators = <<>>
    /\ NoExpectations

NextAggregate ==
    \/ \E gs \in GradeLists, st \in AggregateSettings : CallAggregate(root, gs, st)
    \/ \E gs \in TestgroupsGradeLists : CallTestgroupsAggregate(root, gs)
    \/ \E run \in GraderRuns : GraderTurns(run)

SpecAggregate == InitAggregate /\ [][NextAggregate]_vars

----------------------------------------------------------------------------
(* Construction alone, over richer testdata settings *)

SettingsTrees ==
    { {<<"sample", "2">>, <<"secret", "g", "2">>}, {<<"secret", "10">>, <<"secret", "2">>} }

\* the values given for a key in testdata.yaml
GivenValues ==
    [accept_score |-> {2, 3}, grader_flags |-> {"min", "max"},
     on_reject |-> {"break", "continue"}, range |-> {"0 100", "-inf inf"},
     reject_score |-> {0, 1}]

\* one given setting: <<node, key, value>>
Entries(lv) ==
    UNION { { <<node, key, value>> : node \in Nodes(lv), value \in GivenValues[key] } :
            key \in SettingKeys }

RECURSIVE EntrySets(_, _)
EntrySets(E, k) ==
    IF k = 0 THEN { {} }
    ELSE LET fewer == EntrySets(E, k - 1)
         IN fewer \cup { S \cup {e} : S \in fewer, e \in E }

\* the dict of dicts that holds the given settings
AsGiven(S) ==
    [node \in { e[1] : e \in S } |->
        [key \in { e[2] : e \in { x \in S : x[1] = node } } |->
            (CHOOSE e \in S : e[1] = node /\ e[2] = key)[3]]]

RichGiven(lv) ==
    { AsGiven(S) :
        S \in { T \in EntrySets(Entries(lv), MaxGiven) :
                  \A a, b \in T : (a[1] = b[1] /\ a[2] = b[2]) => a = b } }

InitArgs ==
    /\ leaves \in SettingsTrees
    /\ testdata_settings \in RichGiven(leaves)
    /\ settings = <<>>
    /\ grades = <<>>
    /\ result = [outcome |-> "args", yielded |-> <<>>]
    /\ grader = "answers"
    /\ iterators = <<>>
    /\ NoExpectations

\* Grades(testcases, testdata_settings=...)
Construct ==
    /\ result.outcome = "args"
    /\ settings' = TreeSettings(leaves, testdata_settings)
    /\ grades' = [node \in Nodes(leaves) |-> None]
    /\ result' = [outcome |-> "new", yielded |-> <<>>]
    /\ UNCHANGED <<iterators, leaves, testdata_settings, grader, expectVars>>

NextSettings == Construct

SpecSettings == InitArgs /\ [][NextSettings]_vars

----------------------------------------------------------------------------
(* Expectations (bin/expectations.py).  A path is a sequence of names as   *)
(* above; Path(''), Path('.') and Path() are the root.                     *)

AllVerdicts == {"AC", "WA", "TLE", "RTE"}

\* a float: a number, inf or -inf
Num(n) == [inf |-> 0, n |-> n]
PosInf == [inf |-> 1, n |-> 0]
NegInf == [inf |-> -1, n |-> 0]

\* a <= b on floats
Leq(a, b) == a.inf < b.inf \/ (a.inf = b.inf /\ (a.inf # 0 \/ a.n <= b.n))

\* len(s.split()) for the strings used as ranges and scores
TokenCount(s) ==
    CASE s \in {"5", "foo"} -> 1
      [] s \in {"-inf inf", "0 100", "0 23", "23 0"} -> 2
      [] s = "1 2 3" -> 3

\* float(token) returns for every token of the string
Numeric(s) == s # "foo"

\* map(float, s.split()) for the strings used as ranges and scores
Floats(s) ==
    CASE s = "-inf inf" -> <<NegInf, PosInf>>
      [] s = "0 100" -> <<Num(0), Num(100)>>
      [] s = "0 23" -> <<Num(0), Num(23)>>
      [] s = "23 0" -> <<Num(23), Num(0)>>
      [] s = "5" -> <<Num(5)>>
      [] s = "1 2 3" -> <<Num(1), Num(2), Num(3)>>

\* 'flag' in grader_flags: the flag strings used hold whole flags only, so
\* the substring test is the membership among the split flags
HasFlag(grader_flags, flag) == flag \in Split(grader_flags)

\* f[k] = v, whether or not k was a key
Put(f, k, v) == [x \in (DOMAIN f) \cup {k} |-> IF x = k THEN v ELSE f[x]]

\* Mutation of Expectations_testdata_settings: what is given for the path
\* itself over the defaults, nothing from the groups above.
Expectations_testdata_settings_own(given, path) ==
    DictUnion([grader_flags |-> "", range |-> "-inf inf"], GetOr(given, path))

\* Expectations.testdata_settings(path): the defaults of grader_flags and
\* range, overridden from the root down to the path
RECURSIVE Expectations_testdata_settings(_, _)
Expectations_testdata_settings(given, path) ==
    DictUnion(
        IF path # root THEN Expectations_testdata_settings(given, parent(path))
        ELSE [grader_flags |-> "", range |-> "-inf inf"],
        GetOr(given, path))

\* Mutation of check_scores: the score is parsed and its bounds compared
\* with each other, the range of the testdata settings is not read.
check_scores_unranged(given, scores, path) ==
    IF TokenCount(scores) \notin {1, 2} \/ ~Numeric(scores) THEN "ValueError"
    ELSE IF ~Leq(Floats(scores)[1], Floats(scores)[TokenCount(scores)])
    THEN "ValueError" ELSE "ok"

\* Expectations._check_scores: "ok", or the ValueError it raises
check_scores(given, scores, path) ==
    LET exp == Floats(scores)
        range == Floats(Expectations_testdata_settings(given, path).range)
    IN IF TokenCount(scores) \notin {1, 2} \/ ~Numeric(scores) THEN "ValueError"
       ELSE IF ~Leq(exp[1], exp[Len(exp)]) THEN "ValueError"
       ELSE IF Len(range) # 2 THEN "ValueError"
       ELSE IF Leq(range[1], exp[1]) /\ Leq(exp[Len(exp)], range[2]) THEN "ok"
       ELSE "ValueError"

\* exp.pop(key, None): the value
DictGet(d, key) ==
    IF \E i \in DOMAIN d.dict : d.dict[i][1] = key
    THEN d.dict[CHOOSE i \in DOMAIN d.dict : d.dict[i][1] = key][2]
    ELSE NoneArg

\* exp.pop(key, None): the dict that is left
DictPop(d, key) ==
    LET keep(item) == item[1] # key
    IN Dict(SelectSeq(d.dict, keep))

\* set([verdicts] if isinstance(verdicts, str) else verdicts)
AsSet(verdicts) ==
    IF IsStr(verdicts) THEN {verdicts.str}
    ELSE { verdicts.list[i] : i \in DOMAIN verdicts.list }

\* Path(key).parts for the keys used: a key may hold slashes
Parts(key) ==
    CASE key = "g/2" -> <<"g", "2">>
      [] key = "secret/038-edgecase" -> <<"secret", "038-edgecase">>
      [] OTHER -> <<key>>

\* the end of walk: what is specified for the path itself
walk_own(given, obj, verdicts, scores, path) ==
    IF IsNone(verdicts)
    THEN [obj |-> obj, outcome |-> IF IsNone(scores) THEN "ok" ELSE "ValueError"]
    ELSE LET stored == [obj EXCEPT !.verdicts = Put(@, path, AsSet(verdicts))]
         IN IF ~IsNone(scores) /\ check_scores(given, scores.str, path) # "ok"
            THEN [obj |-> stored, outcome |-> "ValueError"]
            ELSE [obj |-> [stored EXCEPT !.scores = Put(@, path, scores)],
                  outcome |-> "ok"]

\* walk(exp, path) of Expectations.__init__ on the object obj: the object
\* and the value exp as the walk leaves them, and how it ends.  A dict loses
\* its keys 'verdict' and 'score'; its other keys are walked in their order
\* before the path's own verdicts are stored.
RECURSIVE walk(_, _, _, _), walk_items(_, _, _, _, _)
walk(given, obj, exp, path) ==
    IF IsDict(exp)
    THEN LET verdicts == DictGet(exp, "verdict")
             scores == DictGet(exp, "score")
             rest == DictPop(DictPop(exp, "verdict"), "score")
             below == walk_items(given, obj, rest.dict, 1, path)
         IN IF below.outcome # "ok"
            THEN [obj |-> below.obj, exp |-> Dict(below.items), outcome |-> below.outcome]
            ELSE LET own == walk_own(given, below.obj, verdicts, scores, path)
                 IN [obj |-> own.obj, exp |-> Dict(below.items), outcome |-> own.outcome]
    ELSE LET own == walk_own(given, obj, exp, NoneArg, path)
         IN [obj |-> own.obj, exp |-> exp, outcome |-> own.outcome]

\* Mutation of walk_items: the keys at the root are not compared with
\* 'sample' and 'secret'.
walk_items_any_key(given, obj, items, i, path) ==
    IF i > Len(items)
    THEN [obj |-> obj, items |-> items, outcome |-> "ok"]
    ELSE LET sub == walk(given, obj, items[i][2], path \o Parts(items[i][1]))
             walked == [items EXCEPT ![i] = <<items[i][1], sub.exp>>]
         IN IF sub.outcome # "ok"
            THEN [obj |-> sub.obj, items |-> walked, outcome |-> sub.outcome]
            ELSE walk_items(given, sub.obj, walked, i + 1, path)

walk_items(given, obj, items, i, path) ==
    IF i > Len(items)
    THEN [obj |-> obj, items |-> items, outcome |-> "ok"]
    ELSE IF path = root /\ items[i][1] \notin {"sample", "secret"}
    THEN [obj |-> obj, items |-> items, outcome |-> "ValueError"]
    ELSE LET sub == walk(given, obj, items[i][2], path \o Parts(items[i][1]))
             walked == [items EXCEPT ![i] = <<items[i][1], sub.exp>>]
         IN IF sub.outcome # "ok"
            THEN [obj |-> sub.obj, items |-> walked, outcome |-> sub.outcome]
            ELSE walk_items(given, sub.obj, walked, i + 1, path)

\* Mutation of dirnamemap: one more directory name stands for a verdict.
dirnamemap_with_mixed ==
    [accepted |-> "AC", mixed |-> "AC", run_time_error |-> "RTE",
     time_limit_exceeded |-> "TLE", wrong_answer |-> "WA"]

dirnamemap ==
    [accepted |-> "AC", run_time_error |-> "RTE", time_limit_exceeded |-> "TLE",
     wrong_answer |-> "WA"]

domjudge_verdict_map ==
    [x \in {"CORRECT", "WRONG-ANSWER", "TIMELIMIT", "RUN-ERROR"} |->
        CASE x = "CORRECT" -> "AC"
          [] x = "WRONG-ANSWER" -> "WA"
          [] x = "TIMELIMIT" -> "TLE"
          [] x = "RUN-ERROR" -> "RTE"]

\* Mutation of root_verdicts: the other sources are not compared with the
\* verdicts of the declarative expectations, and not adopted.
root_verdicts_unread(obj, sources) == [obj |-> obj, outcome |-> "ok"]

\* the loop over [dirname_verdict, expected_results_short]; a verdict set
\* that is None is the empty sequence, one that is given the sequence of it
RECURSIVE root_verdicts(_, _)
root_verdicts(obj, sources) ==
    IF sources = <<>> THEN [obj |-> obj, outcome |-> "ok"]
    ELSE IF Head(sources) = <<>> THEN root_verdicts(obj, Tail(sources))
    ELSE LET root_verdict == Head(sources)[1]
             yaml_verdict ==
                 IF root \in DOMAIN obj.verdicts THEN obj.verdicts[root] ELSE {}
         IN IF yaml_verdict # {}
            THEN (IF yaml_verdict # root_verdict
                  THEN [obj |-> obj, outcome |-> "ValueError"]
                  ELSE root_verdicts(obj, Tail(sources)))
            ELSE root_verdicts(
                    [obj EXCEPT !.verdicts = Put(@, root, root_verdict)], Tail(sources))

\* Expectations.__init__: the object, the argument `expectations` as it is
\* left, and how the construction ends
Expectations_init(exp, results, dir, given) ==
    LET new == [scores |-> <<>>, verdicts |-> <<>>]
        walked == IF IsNone(exp) THEN [obj |-> new, exp |-> exp, outcome |-> "ok"]
                  ELSE walk(given, new, exp, root)
        dirname_verdict ==
            IF IsStr(dir) /\ dir.str \in DOMAIN dirnamemap
            THEN << {dirnamemap[dir.str]} >> ELSE <<>>
        given_results == IsList(results) /\ results.list # <<>>
        expected_results_short ==
            IF given_results
            THEN << { domjudge_verdict_map[results.list[i]] : i \in DOMAIN results.list } >>
            ELSE <<>>
    IN IF walked.outcome # "ok" THEN walked
       ELSE IF given_results /\ dirname_verdict # <<>>
       THEN [walked EXCEPT !.outcome = "ValueError"]
       ELSE IF given_results
               /\ \E i \in DOMAIN results.list :
                      results.list[i] \notin DOMAIN domjudge_verdict_map
       THEN [walked EXCEPT !.outcome = "ValueError"]
       ELSE LET agreed == root_verdicts(
                              walked.obj, <<dirname_verdict, expected_results_short>>)
            IN [obj |-> agreed.obj, exp |-> walked.exp, outcome |-> agreed.outcome]

\* the node given to a lookup: a str, or the Path that the lookup of a child
\* hands on for its parent
StrNode(path) == [path |-> path, type |-> "str"]
PathNode(path) == [path |-> path, type |-> "Path"]

IsRaise(x) == DOMAIN x = {"exception"}

\* Expectations.__getitem__(node): (verdicts, range) or the ValueError.  The
\* lookup is cached; it reads only what the construction has stored.
RECURSIVE getitem(_, _, _)
getitem(obj, given, node) ==
    LET path == node.path
        verdicts ==
            IF path \in DOMAIN obj.verdicts /\ obj.verdicts[path] # {}
            THEN obj.verdicts[path] ELSE AllVerdicts
        scores ==
            IF path \in DOMAIN obj.scores /\ IsStr(obj.scores[path])
            THEN obj.scores[path].str ELSE "-inf inf"
    IN IF path = root THEN Return([range |-> scores, verdicts |-> verdicts])
       ELSE LET grader_flags ==
                    Expectations_testdata_settings(given, parent(path)).grader_flags
                above == getitem(obj, given, PathNode(parent(path)))
            IN IF IsRaise(above) THEN above
               ELSE IF /\ above.value.verdicts = {"AC"}
                       /\ ~HasFlag(grader_flags, "accept_if_any_accepted")
                       /\ ~HasFlag(grader_flags, "always_accept")
                       /\ ~(/\ node = StrNode(<<"sample">>)
                            /\ HasFlag(grader_flags, "ignore_sample"))
               THEN (IF "AC" \notin verdicts THEN Raise("ValueError")
                     ELSE Return([range |-> scores, verdicts |-> {"AC"}]))
               ELSE Return([range |-> scores, verdicts |-> verdicts])

\* Expectations.is_expected(grade, node) for a grade that is a verdict (a
\* str) or a tuple (verdict, score)
is_expected(obj, given, grade, node) ==
    LET got == getitem(obj, given, node)
    IN IF IsRaise(got) THEN got
       ELSE IF IsTuple(grade)
       THEN LET range == Floats(got.value.range)
            IN IF Len(range) # 2 THEN Raise("ValueError")
               ELSE Return(/\ grade.tuple[1] \in got.value.verdicts
                           /\ Leq(range[1], grade.tuple[2])
                           /\ Leq(grade.tuple[2], range[2]))
       ELSE Return(grade.str \in got.value.verdicts)

----------------------------------------------------------------------------
(* Expectations: the arguments of the constructor, and the calls *)

\* the nodes that the declarative expectations give verdicts for
SpecifiedNodes == { root, <<"sample">>, <<"secret">>, <<"secret", "g">> }

\* the nodes that are looked up
QueryPaths == Nodes(CasePaths)

\* what is given for one node: its verdicts and its score
Only(verdicts) == [score |-> NoneArg, verdict |-> verdicts]
Scored(verdicts, scores) == [score |-> Str(scores), verdict |-> verdicts]

\* the yaml value for the nodes at and below path, from what is given for
\* each node: a str or a list where only verdicts are given and nothing
\* below, else a dict with the keys 'verdict', 'score' and the names below
RECURSIVE Nest(_, _)
Nest(flat, path) ==
    LET below == { p \in DOMAIN flat :
                      Len(p) > Len(path) /\ SubSeq(p, 1, Len(path)) = path }
        names == SortedSeq({ SubSeq(p, 1, Len(path) + 1) : p \in below })
        own == IF path \in DOMAIN flat THEN flat[path] ELSE Only(NoneArg)
    IN IF below = {} /\ IsNone(own.score) THEN own.verdict
       ELSE Dict((IF IsNone(own.verdict) THEN <<>> ELSE << <<"verdict", own.verdict>> >>)
                 \o (IF IsNone(own.score) THEN <<>> ELSE << <<"score", own.score>> >>)
                 \o [i \in DOMAIN names |->
                        <<names[i][Len(path) + 1], Nest(flat, names[i])>>])

\* verdicts for up to MaxSpecified nodes
Inherited ==
    LET choices == { Only(Str("AC")), Only(Str("WA")), Only(List(<<"WA", "TLE">>)) }
    IN UNION { [S -> choices] :
                S \in { T \in SUBSET SpecifiedNodes : Cardinality(T) <= MaxSpecified } }

\* verdicts and a score for one node
ScoredOnce ==
    LET choices == { Only(Str("JE")), Only(List(<<"AC", "FOO">>)), Only(List(<<>>)),
                     Scored(Str("AC"), "0 23"), Scored(Str("AC"), "5"),
                     Scored(Str("AC"), "23 0"), Scored(NoneArg, "0 23"),
                     Scored(Str("AC"), "0 100"), Scored(Str("AC"), "foo"),
                     Scored(Str("AC"), "1 2 3") }
    IN UNION { [{node} -> choices] : node \in {root, <<"secret">>} }

\* grader_flags given for one group
FlagsGiven ==
    { <<>> } \cup
    UNION { [{node} -> { [grader_flags |-> flags] :
                          flags \in {"accept_if_any_accepted", "always_accept",
                                     "ignore_sample"} }] :
            node \in {root, <<"secret">>} }

RangeGiven ==
    { <<>> } \cup
    UNION { [{node} -> { [range |-> range] : range \in {"0 100", "0 23"} }] :
            node \in {root, <<"secret">>} }

\* declarative expectations with keys that are no group of the root, that
\* are paths, or that reach the node secret/g/2 twice
Keyed ==
    { Dict(<< <<"edgecases", Str("WA")>> >>),
      Dict(<< <<"verdict", List(<<"WA", "TLE">>)>>, <<"sample", Str("AC")>>,
              <<"secret/038-edgecase", Str("WA")>> >>),
      Dict(<< <<"verdict", List(<<"WA", "TLE">>)>>, <<"sample", Str("AC")>>,
              <<"secret", Dict(<< <<"038-edgecase", Str("WA")>> >>)>> >>),
      Dict(<< <<"secret", Dict(<< <<"edgecases", Str("WA")>> >>)>> >>),
      Dict(<< <<"secret", Dict(<< <<"g/2", Str("WA")>> >>)>> >>) }
    \cup { Dict(<< <<"secret", Dict(items)>> >>) :
             items \in UNION { { << <<"g", Dict(<< <<"2", first>> >>)>>, <<"g/2", second>> >>,
                                 << <<"g/2", second>>, <<"g", Dict(<< <<"2", first>> >>)>> >> } :
                               first \in { Str("AC"), List(<<"AC", "WA">>) },
                               second \in { Str("WA"), List(<<"AC", "WA">>) } } }

\* the arguments: expectations, expected_results, dirname, testdata_settings
ExpectationsArgs ==
    { <<exp, NoneArg, NoneArg, <<>> >> : exp \in Keyed } \cup
    { <<IF DOMAIN flat = {} THEN NoneArg ELSE Nest(flat, root), NoneArg, NoneArg, given>> :
        flat \in Inherited, given \in FlagsGiven }
    \cup { <<Nest(flat, root), NoneArg, NoneArg, given>> :
             flat \in ScoredOnce, given \in RangeGiven }
    \cup { <<exp, results, dir, <<>> >> :
             exp \in { NoneArg, Str("AC"), Str("WA") },
             results \in { NoneArg, List(<<>>), List(<<"CORRECT">>),
                           List(<<"WRONG-ANSWER">>),
                           List(<<"CORRECT", "WRONG-ANSWER">>), List(<<"BOGUS">>) },
             dir \in { NoneArg, Str("accepted"), Str("wrong_answer"), Str("mixed") } }

InitExpectations ==
    /\ leaves = {}
    /\ settings = <<>>
    /\ grades = <<>>
    /\ grader = "answers"
    /\ iterators = <<>>
    /\ result = [outcome |-> "args", yielded |-> <<>>]
    /\ specified = NoneArg
    /\ Grades_expectations = NoneArg
    /\ \E args \in ExpectationsArgs :
          /\ expectations = args[1]
          /\ expected_results = args[2]
          /\ dirname = args[3]
          /\ testdata_settings = args[4]

\* Expectations(expectations, expected_results, dirname, testdata_settings)
NewExpectations ==
    /\ result.outcome = "args"
    /\ LET made == Expectations_init(
                        expectations, expected_results, dirname, testdata_settings)
       IN /\ expectations' = made.exp
          /\ specified' = IF made.outcome = "ok" THEN made.obj ELSE NoneArg
          /\ result' = [outcome |-> IF made.outcome = "ok" THEN "new" ELSE made.outcome,
                        yielded |-> <<>>]
    /\ UNCHANGED <<iterators, leaves, testdata_settings, settings, grades, grader,
                   expected_results, dirname, Grades_expectations>>

\* the outcome of a call that returns or raises
Outcome(returned) == IF IsRaise(returned) THEN returned.exception ELSE "ok"

\* e[node], also as e.verdicts(node) and e.range(node)
GetItem(node) ==
    /\ ~IsNone(specified)
    /\ LET got == getitem(specified, testdata_settings, node)
       IN result' = [outcome |-> Outcome(got), yielded |-> <<"getitem", node, got>>]
    /\ UNCHANGED <<iterators, leaves, testdata_settings, settings, grades, grader, expectVars>>

\* the grades asked about
ExpectedGrades ==
    { Str("AC"), Str("WA"), PyTuple("AC", Num(0)), PyTuple("AC", Num(23)),
      PyTuple("AC", Num(24)), PyTuple("AC", Num(-1)), PyTuple("AC", Num(5)),
      PyTuple("AC", PosInf), PyTuple("WA", Num(10)) }

\* e.is_expected(grade, node)
IsExpected(grade, node) ==
    /\ ~IsNone(specified)
    /\ LET got == is_expected(specified, testdata_settings, grade, node)
       IN result' = [outcome |-> Outcome(got),
                     yielded |-> <<"is_expected", grade, node, got>>]
    /\ UNCHANGED <<iterators, leaves, testdata_settings, settings, grades, grader, expectVars>>

NextExpectations ==
    \/ NewExpectations
    \/ \E path \in QueryPaths : GetItem(StrNode(path))
    \/ \E grade \in ExpectedGrades, path \in {root, <<"secret">>} :
            IsExpected(grade, StrNode(path))

SpecExpectations == InitExpectations /\ [][NextExpectations]_vars

----------------------------------------------------------------------------
(* Grades built with expectations (bin/grading.py) *)

\* Expectation(): all four verdicts and every score
Expectation == [score_range |-> "-inf inf", verdicts |-> AllVerdicts]

\* Grades._set_expectations(expectations, node): the expectations of the
\* nodes as the call leaves them and how it ends.  The keys of a dict other
\* than 'verdict' and 'score' are walked in their order, a warning is
\* logged for a node that is not in the tree, and then the verdicts given
\* for the node itself are intersected with those it has.
RECURSIVE set_expectations(_, _, _), set_expectations_items(_, _, _, _)
set_expectations(expect, exp, node) ==
    LET verdicts_for_node == IF IsDict(exp) THEN DictGet(exp, "verdict") ELSE exp
        below == IF IsDict(exp) THEN set_expectations_items(expect, exp.dict, 1, node)
                 ELSE [expect |-> expect, outcome |-> "ok"]
    IN IF below.outcome # "ok" \/ IsNone(verdicts_for_node) THEN below
       ELSE IF node \notin DOMAIN below.expect
       THEN [expect |-> below.expect, outcome |-> "KeyError"]
       ELSE LET both == below.expect[node].verdicts \cap AsSet(verdicts_for_node)
            IN [expect |-> [below.expect EXCEPT ![node].verdicts = both],
                outcome |-> IF both = {} THEN "ValueError" ELSE "ok"]

set_expectations_items(expect, items, i, node) ==
    IF i > Len(items) THEN [expect |-> expect, outcome |-> "ok"]
    ELSE IF items[i][1] \in {"verdict", "score"}
    THEN set_expectations_items(expect, items, i + 1, node)
    ELSE LET sub == set_expectations(expect, items[i][2], node \o Parts(items[i][1]))
         IN IF sub.outcome # "ok" THEN sub
            ELSE set_expectations_items(sub.expect, items, i + 1, node)

\* inherit_accepted of Grades._infer_expectations
inherit_accepted(expect, grader_flags, node) ==
    /\ expect[node].verdicts = {"AC"}
    /\ \/ ~HasFlag(grader_flags, "accept_if_any_accepted")
       \/ ~HasFlag(grader_flags, "always_accept")

\* Grades._infer_expectations(node): the expectations of the nodes as the
\* call leaves them.  'ignore_sample' is looked for among the keys of the
\* settings of the node; a child left without a verdict is logged as an
\* error and the visit goes on.
RECURSIVE infer_expectations(_, _, _, _), infer_expectations_children(_, _, _, _, _, _)
infer_expectations(lv, st, expect, node) ==
    IF node \in lv THEN expect
    ELSE infer_expectations_children(lv, st, expect, node, Children(lv, node), 1)

infer_expectations_children(lv, st, expect, node, ch, i) ==
    IF i > Len(ch) THEN expect
    ELSE LET grader_flags == st[node].grader_flags
             forced ==
                 IF /\ inherit_accepted(expect, grader_flags, node)
                    /\ ~(node = root /\ "ignore_sample" \in DOMAIN st[node])
                 THEN [expect EXCEPT ![ch[i]].verdicts = @ \cap {"AC"}]
                 ELSE expect
         IN infer_expectations_children(
                lv, st, infer_expectations(lv, st, forced, ch[i]), node, ch, i + 1)

\* the trees: one that has every node that the expectations name, and one
\* that lacks sample and secret/g
ExpectedTrees ==
    { {<<"sample", "2">>, <<"secret", "2">>, <<"secret", "g", "2">>},
      {<<"secret", "2">>} }

\* grader_flags that hold both flags that stop the inheritance
BothFlagsGiven ==
    { [node \in {group} |->
          [grader_flags |-> "accept_if_any_accepted always_accept"]] :
      group \in {root, <<"secret">>} }

InitExpecting ==
    /\ leaves \in ExpectedTrees
    /\ testdata_settings \in FlagsGiven \cup BothFlagsGiven
    /\ settings = <<>>
    /\ grades = <<>>
    /\ result = [outcome |-> "args", yielded |-> <<>>]
    /\ grader = "answers"
    /\ iterators = <<>>
    /\ expectations \in { Nest(flat, root) : flat \in Inherited \ { <<>> } }
    /\ expected_results = NoneArg
    /\ dirname = NoneArg
    /\ specified = NoneArg
    /\ Grades_expectations = NoneArg

\* Grades(testcases, expectations=..., testdata_settings=...)
ConstructExpecting ==
    /\ result.outcome = "args"
    /\ LET st == TreeSettings(leaves, testdata_settings)
           fresh == [node \in Nodes(leaves) |-> Expectation]
           given == set_expectations(fresh, expectations, root)
       IN IF given.outcome = "ok"
          THEN /\ settings' = st
               /\ Grades_expectations' = infer_expectations(leaves, st, given.expect, root)
               /\ grades' = [node \in Nodes(leaves) |-> None]
               /\ result' = [outcome |-> "new", yielded |-> <<>>]
          ELSE /\ result' = [outcome |-> given.outcome, yielded |-> <<>>]
               /\ UNCHANGED <<settings, grades, Grades_expectations>>
    /\ UNCHANGED <<iterators, leaves, testdata_settings, grader, expectations,
                   expected_results, dirname, specified>>

\* grades[testcase] = grade on Grades that were built with expectations
SetItemExpecting(testcase, grade) ==
    /\ Grades_expectations # NoneArg
    /\ SetItem(testcase, grade)

NextExpecting ==
    \/ ConstructExpecting
    \/ \E testcase \in leaves, grade \in IteratedGrades :
            SetItemExpecting(testcase, grade)

SpecExpecting == InitExpecting /\ [][NextExpecting]_vars

----------------------------------------------------------------------------
(* Properties *)

Groups == ancestors(leaves)

Graded(node) == grades[node] # None

\* the verdict that a stored value holds, be it a Grade or a tuple
StoredVerdict(x) == IF IsTuple(x) THEN x.tuple[1] ELSE x.verdict

\* the nodes of the pairs the last call yielded
YieldedNodes == { result.yielded[i][1] : i \in DOMAIN result.yielded }

\* C1: every node starts with grade None, and a grade that is not None
\* never changes: neither to another grade nor back to None.
C1_GradesMonotone ==
    /\ \A node \in DOMAIN grades : grades[node] = None
    /\ [][\A node \in DOMAIN grades :
            grades[node] # None => grades'[node] = grades[node]]_vars

\* a testcase was graded under a group that had its grade from an earlier
\* call, and the group's grade was derived again
C1_Witness ==
    /\ result.outcome = "ok"
    /\ result.yielded # <<>>
    /\ \E node \in Groups :
        /\ Graded(node)
        /\ parent(result.yielded[1][1]) = node
        /\ node \notin YieldedNodes

\* The readiness of a group as the documentation states it: all its children
\* are graded, or on_reject is break and the children up to and including a
\* rejected one are graded.
Ready(node) ==
    LET ch == Children(leaves, node)
    IN \/ \A i \in DOMAIN ch : Graded(ch[i])
       \/ /\ settings[node].on_reject = "break"
          /\ \E i \in DOMAIN ch :
                /\ Graded(ch[i]) /\ StoredVerdict(grades[ch[i]]) # "AC"
                /\ \A j \in 1..i : Graded(ch[j])

\* C2: a graded group is ready; in particular no child that sorts before
\* its first rejected child is ungraded.
C2_GradedIsReady == \A node \in Groups : Graded(node) => Ready(node)

\* a group under on_reject: break is graded while a later child is not
C2_Witness ==
    \E node \in Groups :
        /\ Graded(node)
        /\ \E i \in DOMAIN Children(leaves, node) :
              ~Graded(Children(leaves, node)[i])

\* C3: after every call that completes, every group that is ready has a
\* grade.
C3_ReadyIsGraded ==
    result.outcome = "ok" => \A node \in Groups : Ready(node) => Graded(node)

\* the root has its grade although some testcase has none: the early grade
\* of a group went all the way up
C3_Witness ==
    /\ Graded(root)
    /\ result.outcome = "ok"
    /\ root \in YieldedNodes
    /\ \E testcase \in leaves : ~Graded(testcase)

C5_NonLeafRaises ==
    /\ [](\A node \in (Nodes(leaves) \cup UnknownPaths) \ leaves, grade \in GradeArgs :
            set_grade(node, grade).outcome = "KeyError")
    /\ [][result'.outcome = "KeyError" => grades' = grades]_vars

\* a call for a node that is no testcase has just raised, with grades in
\* place that it left alone
C5_Witness ==
    /\ result.outcome = "KeyError"
    /\ \E testcase \in leaves : Graded(testcase)
    /\ \E node \in Groups : ~Graded(node)

\* the grades of the graded children of a group, in the children's order
C6_ChildGrades(node) ==
    LET ch == Children(leaves, node)
        F[i \in 0..Len(ch)] ==
            IF i = 0 THEN <<>>
            ELSE IF Graded(ch[i]) THEN Append(F[i - 1], grades[ch[i]]) ELSE F[i - 1]
    IN F[Len(ch)]

\* the list cut after its first grade that is not AC
C6_UpToFirstRejected(gs) ==
    LET keep == { i \in DOMAIN gs : \A j \in 1..(i - 1) : gs[j].verdict = "AC" }
    IN [i \in keep |-> gs[i]]

\* C6: the grade of a group is the grader's answer, with the group's own
\* grader_flags, on the grades of its graded children in their order; under
\* on_reject: break on the prefix of that list that ends with its first
\* rejected grade.
C6_GroupGradeIsAggregate ==
    \A node \in Groups :
        Graded(node) =>
            grades[node] =
                call_default_grader(
                    IF settings[node].on_reject = "break"
                    THEN C6_UpToFirstRejected(C6_ChildGrades(node))
                    ELSE C6_ChildGrades(node),
                    settings[node].grader_flags)

\* a group under on_reject: break has a grade, and a child after its first
\* rejected child is graded too: the list was cut
C6_Witness ==
    \E node \in Groups :
        /\ Graded(node)
        /\ settings[node].on_reject = "break"
        /\ \E i, j \in DOMAIN Children(leaves, node) :
              /\ i < j
              /\ is_rejected(grades, Children(leaves, node)[i])
              /\ Graded(Children(leaves, node)[j])

\* the last component of a path: the name of the testcase in its group
ShortName(node) == node[Len(node)]

StatedDefaults ==
    [accept_score |-> 1, grader_flags |-> "", on_reject |-> "break",
     range |-> "-inf inf", reject_score |-> 0]

\* the value of a key at a group: the one given for the nearest of the
\* group and its ancestors that gives the key, else the default
RECURSIVE Effective(_, _)
Effective(node, key) ==
    IF node \in DOMAIN testdata_settings /\ key \in DOMAIN testdata_settings[node]
    THEN testdata_settings[node][key]
    ELSE IF node = root THEN StatedDefaults[key]
    ELSE Effective(parent(node), key)

\* C9: a testcase given a bare verdict is stored with the effective
\* accept_score of its parent group if the verdict is AC and with the
\* parent's effective reject_score otherwise.
C9_BareVerdictScore ==
    [][\A testcase \in leaves, verdict \in CaseVerdicts :
        (/\ ~Graded(testcase)
         /\ grades'[testcase] # None
         /\ SetItem(testcase, StrArg(verdict))) =>
            grades'[testcase] =
                Grade(verdict,
                      Effective(parent(testcase),
                                IF verdict = "AC" THEN "accept_score"
                                ELSE "reject_score"))]_vars

\* a rejected testcase has the reject_score that an ancestor of its group
\* sets and its group inherits, and its group was aggregated with it
C9_Witness ==
    \E testcase \in leaves :
        /\ grades[testcase] = Grade("WA", 1)
        /\ parent(testcase) \notin DOMAIN testdata_settings
        /\ grades[parent(testcase)] = Grade("WA", 1)

\* C10: the settings of every group are the defaults overridden key by key
\* by what is given for its ancestors from the root down and for the group
\* itself: each key has the value given for the nearest of the group and its
\* ancestors that gives it, else its default, whatever is given for the
\* other keys.
C10_SettingsInherited ==
    result.outcome # "args" =>
        /\ DOMAIN settings = Groups
        /\ \A node \in Groups :
              /\ DOMAIN settings[node] = DOMAIN StatedDefaults
              /\ \A key \in DOMAIN StatedDefaults :
                    settings[node][key] = Effective(node, key)

\* built from settings where a group inherits one key from an ancestor and
\* is given another key itself
C10_Witness ==
    /\ result.outcome = "new"
    /\ <<"secret">> \in DOMAIN testdata_settings
    /\ <<"secret", "g">> \in DOMAIN testdata_settings
    /\ settings[<<"secret", "g">>].on_reject = "continue"
    /\ "on_reject" \notin DOMAIN testdata_settings[<<"secret", "g">>]
    /\ settings[<<"secret", "g">>].grader_flags = "max"
    /\ settings[<<"secret">>].grader_flags = ""

\* C11: a failing run of the grader is absorbed.  The group it was run for
\* is stored with verdict JE, the call ends without an exception, every group
\* that is ready then (the group with JE counting as a rejected child) has
\* its grade, and no later call ends in an exception because of it.
C11_JudgeErrorAbsorbed ==
    /\ [](result.outcome # "AttributeError")
    /\ [][(grader # "answers" /\ grades' # grades) =>
            /\ result'.outcome = "ok"
            /\ \A node \in Groups :
                  /\ (~Graded(node) /\ Graded(node)') =>
                        StoredVerdict(grades'[node]) = "JE"
                  /\ Ready(node)' => Graded(node)']_vars

\* the grader failed for a group below the root, and a later call for a
\* testcase elsewhere in the tree came to an end
C11_Witness ==
    /\ result.outcome = "ok"
    /\ result.yielded # <<>>
    /\ \E node \in Groups \ {root} :
          /\ Graded(node) /\ IsTuple(grades[node])
          /\ node \notin Parents(result.yielded[1][1])

\* the score that a stored value holds: <<>> for the None of a tuple
StoredScore(x) == IF IsTuple(x) THEN x.tuple[2] ELSE <<x.score>>

\* C13: for every node, the queries return None, None, false and false when
\* the node has no grade, and else the stored verdict, the stored score,
\* whether the verdict is AC and whether it is another verdict (JE too).
C13_QueriesReturnStored ==
    \A node \in Nodes(leaves) :
        IF ~Graded(node)
        THEN /\ Grades_verdict(node) = Return("None")
             /\ Grades_score(node) = Return(<<>>)
             /\ Grades_is_accepted(node) = Return(FALSE)
             /\ Grades_is_rejected(node) = Return(FALSE)
        ELSE /\ Grades_verdict(node) = Return(StoredVerdict(grades[node]))
             /\ Grades_score(node) = Return(StoredScore(grades[node]))
             /\ Grades_is_accepted(node) = Return(StoredVerdict(grades[node]) = "AC")
             /\ Grades_is_rejected(node) = Return(StoredVerdict(grades[node]) # "AC")

\* a group under on_reject: break with at least three children, of which
\* the first is graded AC and the second WA
C12_AcceptedThenRejected(node) ==
    LET ch == Children(leaves, node)
    IN /\ settings[node].on_reject = "break"
       /\ Len(ch) >= 3
       /\ Graded(ch[1]) /\ grades[ch[1]].verdict = "AC"
       /\ Graded(ch[2]) /\ grades[ch[2]].verdict = "WA"

\* C12, as claimed: under on_reject: break a group whose children are graded
\* AC, WA while the third has no grade has no grade itself.
C12_WaitsForThirdChild ==
    \A node \in Groups :
        (C12_AcceptedThenRejected(node) /\ ~Graded(Children(leaves, node)[3])) =>
            ~Graded(node)

\* C12, amended: under on_reject: break a group whose first two children are
\* graded AC, WA has a grade, whether its third child is graded or not: the
\* verdict WA, with the score that the grader gives for those two grades.
C12_GradedAtFirstRejection ==
    \A node \in Groups :
        C12_AcceptedThenRejected(node) =>
            /\ Graded(node)
            /\ grades[node].verdict = "WA"
            /\ grades[node] =
                  call_default_grader(
                      <<grades[Children(leaves, node)[1]],
                        grades[Children(leaves, node)[2]]>>,
                      settings[node].grader_flags)

\* the third child got its grade after the group had its own
C12_Witness ==
    \E node \in Groups :
        /\ C12_AcceptedThenRejected(node)
        /\ Graded(Children(leaves, node)[3])
        /\ Children(leaves, node)[3] \in YieldedNodes
        /\ node \notin YieldedNodes
        /\ result.outcome = "ok"

\* the characters of a name, as code points
C14_CodePoints(name) ==
    CASE name = "10" -> <<49, 48>>
      [] name = "2" -> <<50>>
      [] name = "g" -> <<103>>
      [] name = "sample" -> <<115, 97, 109, 112, 108, 101>>
      [] name = "secret" -> <<115, 101, 99, 114, 101, 116>>

\* the path string of a node other than the root: its names joined by '/'
RECURSIVE C14_PathString(_)
C14_PathString(node) ==
    IF Len(node) = 1 THEN C14_CodePoints(node[1])
    ELSE C14_PathString(SubSeq(node, 1, Len(node) - 1))
         \o <<47>> \o C14_CodePoints(node[Len(node)])

\* s sorts before t in the lexicographic order of strings
C14_LexLess(s, t) ==
    \E k \in 1..(Len(s) + 1) :
        /\ \A i \in 1..(k - 1) : i <= Len(t) /\ s[i] = t[i]
        /\ IF k > Len(s) THEN Len(t) >= k
           ELSE k <= Len(t) /\ s[k] < t[k]

\* the place of a node in the iteration of the tree
C14_Place(node) ==
    CHOOSE i \in DOMAIN TreeIter(leaves) : TreeIter(leaves)[i] = node

\* C14: in the tree as it is built, the groups are the proper prefixes of the testcase paths, the root
\* among them; the children list of a group holds every node whose parent is
\* the group once, groups and testcases alike, in the lexicographic order of
\* their path strings; the iteration yields every node once, the root first,
\* a node of lesser depth before one of greater depth, and nodes of one
\* depth in the order of their parents and, under one parent, in the order
\* of its children list.
C14_TreeShape ==
    result.outcome = "new" =>
    LET it == TreeIter(leaves)
    IN /\ \A node \in Nodes(leaves) \cup UnknownPaths \cup {root} :
             node \in ancestors(leaves) <=>
                \E c \in leaves :
                    /\ Len(node) < Len(c)
                    /\ \A i \in 1..Len(node) : node[i] = c[i]
       /\ \A node \in ancestors(leaves) :
             LET ch == Children(leaves, node)
             IN /\ { ch[i] : i \in DOMAIN ch } =
                      { n \in Nodes(leaves) :
                          Len(n) = Len(node) + 1 /\ SubSeq(n, 1, Len(node)) = node }
                /\ \A i, j \in DOMAIN ch :
                      i < j => C14_LexLess(C14_PathString(ch[i]), C14_PathString(ch[j]))
       /\ { it[i] : i \in DOMAIN it } = Nodes(leaves)
       /\ Len(it) = Cardinality(Nodes(leaves))
       /\ it[1] = root
       /\ \A i, j \in DOMAIN it :
             i < j =>
                \/ Len(it[i]) < Len(it[j])
                \/ /\ Len(it[i]) = Len(it[j])
                   /\ \/ C14_Place(parent(it[i])) < C14_Place(parent(it[j]))
                      \/ /\ parent(it[i]) = parent(it[j])
                         /\ C14_LexLess(C14_PathString(it[i]), C14_PathString(it[j]))

\* a tree is built whose group secret has the testcases 10 and 2 and the
\* group g for children
C14_Witness ==
    /\ result.outcome = "new"
    /\ Children(leaves, <<"secret">>) =
          << <<"secret", "10">>, <<"secret", "2">>, <<"secret", "g">> >>
    /\ TreeIter(leaves) =
          << root, <<"secret">>, <<"secret", "10">>, <<"secret", "2">>,
             <<"secret", "g">>, <<"secret", "g", "2">> >>

\* C15: aggregate answers the empty list with (AC, 0), whatever the settings
\* and however a run of the grader would end; testgroups.aggregate does so
\* with the verdict in its long form.
C15_EmptyListAccepted ==
    /\ \A st \in AggregateSettings : aggregate(root, <<>>, st) = PyTuple("AC", <<0>>)
    /\ (result.outcome = "aggregate" /\ result.yielded[2] = <<>>) =>
            result.yielded[4] = PyTuple("AC", <<0>>)
    /\ (result.outcome = "testgroups.aggregate" /\ result.yielded[2] = <<>>) =>
            /\ short_verdict(result.yielded[3].tuple[1]) = "AC"
            /\ result.yielded[3].tuple[2] = <<0>>

\* aggregate was called with the empty list and settings that are not the
\* defaults while the grader does not answer
C15_Witness ==
    /\ result.outcome = "aggregate"
    /\ result.yielded[2] = <<>>
    /\ result.yielded[3].on_reject = "continue"
    /\ result.yielded[3].grader_flags = "min"
    /\ grader = "timeout"

\* e.verdicts(node) for a node given by its path string, when it returns
Looked(path) == getitem(specified, testdata_settings, StrNode(path))

\* the declarative expectations give verdicts for the node
Explicit(path) == path \in DOMAIN specified.verdicts

\* the effective grader_flags of a node hold the flag
Flagged(path, flag) == flag \in Split(Effective(path, "grader_flags"))

\* C16: a node other than the root for which no verdicts are given has the
\* set {AC} when the set of its parent is {AC} and no flag exempts it, and
\* the set of all four verdicts otherwise.
C16_InheritsFromParent ==
    ~IsNone(specified) =>
        \A path \in QueryPaths \ {root} :
            (~Explicit(path) /\ ~IsRaise(Looked(parent(path)))) =>
                /\ ~IsRaise(Looked(path))
                /\ Looked(path).value.verdicts =
                      IF /\ Looked(parent(path)).value.verdicts = {"AC"}
                         /\ ~Flagged(parent(path), "accept_if_any_accepted")
                         /\ ~Flagged(parent(path), "always_accept")
                         /\ ~(path = <<"sample">> /\ Flagged(root, "ignore_sample"))
                      THEN {"AC"} ELSE AllVerdicts

\* the last call was e.verdicts(node) for the node of this path
LookedUp(path) ==
    /\ Len(result.yielded) = 3
    /\ result.yielded[1] = "getitem"
    /\ result.yielded[2] = StrNode(path)

\* C17: the children for which no verdicts are given keep all four verdicts
\* when the set of their parent is {AC} and the effective grader_flags of
\* the parent, given for it or for a group above it, hold
\* accept_if_any_accepted or always_accept.
C17_FlagsExempt ==
    ~IsNone(specified) =>
        \A path \in QueryPaths \ {root} :
            ( /\ ~Explicit(path)
              /\ ~IsRaise(Looked(parent(path)))
              /\ Looked(parent(path)).value.verdicts = {"AC"}
              /\ \/ Flagged(parent(path), "accept_if_any_accepted")
                 \/ Flagged(parent(path), "always_accept") ) =>
                /\ ~IsRaise(Looked(path))
                /\ Looked(path).value.verdicts = AllVerdicts

\* secret is given AC, always_accept is given for the root only, and the
\* lookup of secret/2 has returned all four verdicts
C17_Witness ==
    /\ ~IsNone(specified)
    /\ LookedUp(<<"secret", "2">>)
    /\ Explicit(<<"secret">>)
    /\ Looked(<<"secret">>) = Return([range |-> "-inf inf", verdicts |-> {"AC"}])
    /\ DOMAIN testdata_settings = {root}
    /\ Flagged(<<"secret">>, "always_accept")
    /\ result.yielded[3] = Return([range |-> "-inf inf", verdicts |-> AllVerdicts])

\* the nodes at and below a top group for which, as for every node between
\* them and the top group, no verdicts are given
Unspecified(top) ==
    { p \in QueryPaths :
        /\ Len(p) >= Len(top) /\ SubSeq(p, 1, Len(top)) = top
        /\ \A n \in Len(top)..Len(p) : ~Explicit(SubSeq(p, 1, n)) }

\* C18: when the root is given AC and the only testdata setting is
\* grader_flags ignore_sample for the root, sample and the nodes below it keep
\* all four verdicts and secret and the nodes below it have {AC}; when no
\* testdata setting is given, sample has {AC} as well.
C18_IgnoreSample ==
    ( /\ ~IsNone(specified)
      /\ Explicit(root) /\ specified.verdicts[root] = {"AC"} ) =>
        /\ testdata_settings = [node \in {root} |-> [grader_flags |-> "ignore_sample"]] =>
              /\ \A p \in Unspecified(<<"sample">>) :
                    /\ ~IsRaise(Looked(p))
                    /\ Looked(p).value.verdicts = AllVerdicts
              /\ \A p \in Unspecified(<<"secret">>) :
                    /\ ~IsRaise(Looked(p))
                    /\ Looked(p).value.verdicts = {"AC"}
        /\ testdata_settings = <<>> =>
              \A p \in Unspecified(<<"sample">>) \cap {<<"sample">>} :
                    /\ ~IsRaise(Looked(p))
                    /\ Looked(p).value.verdicts = {"AC"}

\* a score lies in the range that a string of one or two numbers stands for
InRange(score, range) ==
    LET bounds == Floats(range)
    IN Leq(bounds[1], score) /\ Leq(score, bounds[Len(bounds)])

\* C19: where the lookup of the node returns, is_expected(grade, node) returns
\* true when the verdict of the grade is in the set of the node and the score
\* of the grade, if it has one, lies in the range of the node, bounds
\* included, and false otherwise.
C19_IsExpected ==
    ~IsNone(specified) =>
        \A path \in {root, <<"secret">>} : \A grade \in ExpectedGrades :
            ~IsRaise(Looked(path)) =>
                is_expected(specified, testdata_settings, grade, StrNode(path)) =
                    Return(IF IsTuple(grade)
                           THEN /\ grade.tuple[1] \in Looked(path).value.verdicts
                                /\ InRange(grade.tuple[2], Looked(path).value.range)
                           ELSE grade.str \in Looked(path).value.verdicts)

\* C20: after a construction that succeeded, every set of verdicts that a
\* lookup returns is a non-empty subset of {AC, WA, TLE, RTE}.
C20_VerdictsValid ==
    ~IsNone(specified) =>
        \A path \in QueryPaths :
            ~IsRaise(Looked(path)) =>
                /\ Looked(path).value.verdicts # {}
                /\ Looked(path).value.verdicts \subseteq AllVerdicts

\* the verdicts given for a node leave out AC although the set of its parent
\* is {AC} and no grader flag exempts the node
Contradicts(path) ==
    /\ Explicit(path) /\ specified.verdicts[path] # {}
    /\ "AC" \notin specified.verdicts[path]
    /\ ~IsRaise(Looked(parent(path)))
    /\ Looked(parent(path)).value.verdicts = {"AC"}
    /\ ~Flagged(parent(path), "accept_if_any_accepted")
    /\ ~Flagged(parent(path), "always_accept")
    /\ ~(path = <<"sample">> /\ Flagged(root, "ignore_sample"))

\* C21: a construction that succeeded has left no node whose given verdicts
\* contradict the set {AC} of its parent: such expectations make the
\* construction fail.
C21_ConflictFailsConstruction ==
    ~IsNone(specified) => \A path \in SpecifiedNodes \ {root} : ~Contradicts(path)

\* the construction has just run: it has returned the object or raised
Constructed == result.outcome = "new"
Returned == result.outcome \in {"new", "ValueError"} /\ result.yielded = <<>>

\* The verdict sets that the three sources give for the root, for arguments
\* where the declarative expectations are None, a str or a list: the
\* sequence of the sets that are given.
TreeSource ==
    IF IsStr(expectations) \/ (IsList(expectations) /\ expectations.list # <<>>)
    THEN << AsSet(expectations) >> ELSE <<>>
ResultsSource ==
    IF IsList(expected_results) /\ expected_results.list # <<>>
    THEN << { CASE expected_results.list[i] = "CORRECT" -> "AC"
                [] expected_results.list[i] = "WRONG-ANSWER" -> "WA"
                [] expected_results.list[i] = "TIMELIMIT" -> "TLE"
                [] expected_results.list[i] = "RUN-ERROR" -> "RTE"
                [] OTHER -> "invalid" : i \in DOMAIN expected_results.list } >>
    ELSE <<>>
DirSource ==
    IF IsStr(dirname) /\ dirname.str \in {"accepted", "wrong_answer",
                                           "time_limit_exceeded", "run_time_error"}
    THEN << { CASE dirname.str = "accepted" -> "AC"
                [] dirname.str = "wrong_answer" -> "WA"
                [] dirname.str = "time_limit_exceeded" -> "TLE"
                [] dirname.str = "run_time_error" -> "RTE" } >>
    ELSE <<>>
RootSources == TreeSource \o ResultsSource \o DirSource

\* the arguments are those of a construction with root sources only, and the
\* expected results, if any, are all known
RootSourcesOnly ==
    /\ Returned
    /\ ~IsDict(expectations)
    /\ testdata_settings = <<>>
    /\ \A i \in DOMAIN ResultsSource : "invalid" \notin ResultsSource[i]

\* the object was constructed and the set of its root is the given one
RootIs(verdicts) ==
    /\ Constructed
    /\ Looked(root) = Return([range |-> "-inf inf", verdicts |-> verdicts])

Under(exp, key) == IF IsDict(exp) THEN DictGet(exp, key) ELSE NoneArg
VerdictOf(exp) == IF IsDict(exp) THEN DictGet(exp, "verdict") ELSE exp

\* the declarative expectations for a path of length 0 or 1
GivenFor(path) ==
    IF path = root THEN expectations ELSE Under(expectations, path[1])

\* the step is the construction
Constructs == result.outcome = "args" /\ result'.outcome # "args"

\* a score is one or two numbers, the first not greater than the last, and
\* lies in the range
WellFormed(score) ==
    /\ score \in {"5", "0 23", "23 0", "0 100", "-inf inf"}
    /\ score # "23 0"
Within(score, range) ==
    \/ range = "-inf inf"
    \/ range = "0 100" /\ score \in {"5", "0 23", "0 100"}
    \/ range = "0 23" /\ score \in {"5", "0 23"}

\* C24: a construction from expectations that give verdicts and a score for
\* one node fails when the score is not one or two numbers, when its lower
\* bound is greater than its upper bound, or when it is not within the
\* effective range of the node's path; otherwise it succeeds and the range
\* of the node is the score.
C24_ScoreChecked ==
    [][ \A path \in {root, <<"secret">>} :
          ( /\ Constructs
            /\ ~IsNone(Under(GivenFor(path), "score"))
            /\ ~IsNone(VerdictOf(GivenFor(path))) ) =>
              LET score == Under(GivenFor(path), "score").str
              IN IF WellFormed(score) /\ Within(score, Effective(path, "range"))
                 THEN /\ result'.outcome = "new"
                      /\ getitem(specified', testdata_settings, StrNode(path)) =
                            Return([range |-> score, verdicts |-> {"AC"}])
                 ELSE result'.outcome = "ValueError" /\ IsNone(specified')
      ]_vars

\* secret was given AC with the score '0 23' under the range '0 100' given
\* for the root, the object is constructed and the range of secret is '0 23'
C24_Witness ==
    /\ Constructed
    /\ testdata_settings = [node \in {root} |-> [range |-> "0 100"]]
    /\ Explicit(<<"secret">>)
    /\ Looked(<<"secret">>) = Return([range |-> "0 23", verdicts |-> {"AC"}])

\* C25: the range that a lookup returns for a node lies within the effective
\* range of the testdata settings at the node's path, also for a node for
\* which no score is given.
C25_RangeWithinSetting ==
    ~IsNone(specified) =>
        \A path \in QueryPaths :
            ~IsRaise(Looked(path)) =>
                Within(Looked(path).value.range, Effective(path, "range"))

\* C26: for a node given the score '5', is_expected of a grade with a score
\* returns true when the verdict is in the set of the node and the score is
\* 5, and false otherwise.
C26_SingleNumber ==
    ~IsNone(specified) =>
        \A path \in {root, <<"secret">>} : \A grade \in ExpectedGrades :
            ( /\ ~IsRaise(Looked(path))
              /\ Looked(path).value.range = "5"
              /\ IsTuple(grade) ) =>
                is_expected(specified, testdata_settings, grade, StrNode(path)) =
                    Return(/\ grade.tuple[1] \in Looked(path).value.verdicts
                           /\ grade.tuple[2] = Num(5))

\* the keys of a dict other than 'verdict' and 'score'
GroupKeys(exp) ==
    { exp.dict[i][1] : i \in DOMAIN exp.dict } \ {"verdict", "score"}

\* no score is given for the root or for a group of the root
NoScores ==
    /\ IsNone(Under(expectations, "score"))
    /\ \A key \in {"sample", "secret"} :
          IsNone(Under(Under(expectations, key), "score"))

DocExample ==
    Dict(<< <<"verdict", List(<<"WA", "TLE">>)>>, <<"sample", Str("AC")>>,
            <<"secret/038-edgecase", Str("WA")>> >>)

\* C28: the construction from the example of the documentation, which has
\* the key 'secret/038-edgecase' at the root, succeeds; the set of the root is
\* {WA, TLE}, the set of sample is {AC} and WA is expected for
\* secret/038-edgecase.
C28_PathKeyAtRoot ==
    [][ (Constructs /\ expectations = DocExample) =>
          /\ result'.outcome = "new"
          /\ getitem(specified', testdata_settings, StrNode(root)).value.verdicts
                = {"WA", "TLE"}
          /\ getitem(specified', testdata_settings, StrNode(<<"sample">>)).value.verdicts
                = {"AC"}
          /\ is_expected(specified', testdata_settings, Str("WA"),
                         StrNode(<<"secret", "038-edgecase">>)) = Return(TRUE)
      ]_vars

\* the verdicts given for secret/g/2 by the nested keys and by the key g/2
NestedGiven == VerdictOf(Under(Under(Under(expectations, "secret"), "g"), "2"))
PathGiven == VerdictOf(Under(Under(expectations, "secret"), "g/2"))

\* C29: when verdicts are given for secret/g/2 twice, by nested keys and by
\* a key that is a path, the construction leaves the intersection of the two
\* sets for the node, and fails when the intersection is empty.
C29_Intersected ==
    [][ (Constructs /\ ~IsNone(NestedGiven) /\ ~IsNone(PathGiven)) =>
          LET both == AsSet(NestedGiven) \cap AsSet(PathGiven)
          IN IF both = {} THEN result'.outcome = "ValueError"
             ELSE /\ result'.outcome = "new"
                  /\ specified'.verdicts[<<"secret", "g", "2">>] = both
      ]_vars

\* what the declarative expectations hold for a path
RECURSIVE GivenAt(_, _)
GivenAt(exp, path) ==
    IF path = root THEN exp ELSE GivenAt(Under(exp, Head(path)), Tail(path))

\* the settings of a group of the Grades hold the flag
GroupFlagged(node, flag) == flag \in Split(settings[node].grader_flags)

\* C30: in Grades built with expectations, every child of a group whose set
\* is {AC} has a set within {AC}, unless the grader_flags of the group hold
\* accept_if_any_accepted or always_accept, or the group is the root, its
\* grader_flags hold ignore_sample and the child is sample; a child that is
\* exempt and for which no verdicts are given has all four verdicts.
C30_GradesInherit ==
    result.outcome = "new" =>
        \A child \in Nodes(leaves) \ {root} :
            Grades_expectations[parent(child)].verdicts = {"AC"} =>
                IF \/ GroupFlagged(parent(child), "accept_if_any_accepted")
                   \/ GroupFlagged(parent(child), "always_accept")
                   \/ child = <<"sample">> /\ GroupFlagged(root, "ignore_sample")
                THEN IsNone(VerdictOf(GivenAt(expectations, child))) =>
                        Grades_expectations[child].verdicts = AllVerdicts
                ELSE Grades_expectations[child].verdicts \subseteq {"AC"}

----------------------------------------------------------------------------
(* The groups at which Grades._infer_grade_upwards makes its test *)

\* Mutant: the generator goes on to the parent whatever it finds at a group.
visits_every_ancestor(lv, st, g, node) ==
    [i \in 1..Len(node) |-> SubSeq(node, 1, Len(node) - i)]

\* The groups for which the generator started at `node` computes
\* first_error_idx and the condition, nearest first: the call for `parent`
\* is made only after self.grades[parent] has been set.
RECURSIVE visits(_, _, _, _)
visits(lv, st, g, node) ==
    IF node = root THEN <<>>
    ELSE LET par == parent(node)
             siblings == Children(lv, par)
         IN IF \/ \E i \in DOMAIN siblings : IsTuple(g[siblings[i]])
               \/ ~CanInfer(g, siblings, st[par])
               \/ g[par] # None
            THEN <<par>>
            ELSE <<par>> \o visits(lv, st,
                    [g EXCEPT ![par] = aggregate(par, GradedOf(g, siblings), st[par])],
                    par)

\* the step is a successful assignment to the testcase
Assigns(testcase) ==
    /\ grades[testcase] = None
    /\ grades'[testcase] # None
    /\ result'.outcome = "ok"

\* the groups visited by the assignment of this step to the testcase
Visited(testcase) ==
    LET groups == visits(leaves, settings,
                         [grades EXCEPT ![testcase] = grades'[testcase]], testcase)
    IN { groups[i] : i \in DOMAIN groups }

\* C31 as stated: a successful assignment to a testcase visits every
\* ancestor group of the testcase, the root included.
C31_VisitsEveryAncestor ==
    [][\A testcase \in leaves :
          Assigns(testcase) => Visited(testcase) = Parents(testcase)]_vars

\* C31, amended: a successful assignment visits the parent of the testcase,
\* and an ancestor further up exactly when every group between the testcase
\* and that ancestor had no grade and is graded by this assignment; the walk
\* ends at the first group that is not ready or already graded.
C31_VisitsUntilNotGraded ==
    [][\A testcase \in leaves :
          Assigns(testcase) =>
            \A group \in Parents(testcase) :
                group \in Visited(testcase) <=>
                    \A below \in Parents(testcase) :
                        Len(below) > Len(group) =>
                            grades[below] = None /\ grades'[below] # None]_vars

\* secret/g/2 has been assigned, which graded secret/g; secret was not ready
\* and the root, which has no grade, was not reached
C31_Witness ==
    /\ result.outcome = "ok"
    /\ Len(result.yielded) = 2
    /\ result.yielded[1][1] = <<"secret", "g", "2">>
    /\ result.yielded[2][1] = <<"secret", "g">>
    /\ grades[<<"secret">>] = None
    /\ grades[root] = None

\* C32: a successful set_grade yields the testcase with its grade first and
\* then, each with its grade, the parent of the node yielded before it; the
\* nodes yielded are exactly the nodes that had no grade and have one now,
\* and a node that had a grade keeps it, so no node is yielded twice in a run.
C32_YieldsNewlyGraded ==
    [][ result'.outcome = "ok" =>
          LET y == result'.yielded
          IN /\ Len(y) >= 1
             /\ y[1][1] \in leaves
             /\ \A i \in 2..Len(y) : y[i][1] = parent(y[i - 1][1])
             /\ \A i \in DOMAIN y : y[i][2] = grades'[y[i][1]]
             /\ { y[i][1] : i \in DOMAIN y }
                    = { node \in DOMAIN grades :
                            grades[node] = None /\ grades'[node] # None }
             /\ \A node \in DOMAIN grades :
                    grades[node] # None => grades'[node] = grades[node]
      ]_vars

\* a testcase has been assigned whose parent had its grade already: only the
\* testcase is yielded
C32_Witness ==
    /\ result.outcome = "ok"
    /\ Len(result.yielded) = 1
    /\ grades[parent(result.yielded[1][1])] # None

----------------------------------------------------------------------------
(* Grades.set_grade as a generator: a caller holds two iterators and       *)
(* advances them in turn                                                   *)

\* on_reject given for every group of the tree
OnRejects == { [on_reject |-> "break"], [on_reject |-> "continue"] }

\* the trees whose testcases are assigned through iterators
IteratedTrees ==
    { {<<"sample", "2">>, <<"secret", "2">>},
      {<<"secret", "10">>, <<"secret", "2">>},
      {<<"secret", "10">>, <<"secret", "g", "2">>},
      {<<"secret", "10">>, <<"secret", "2">>, <<"secret", "g", "2">>},
      {<<"sample", "2">>, <<"secret", "10">>, <<"secret", "2">>},
      {<<"sample", "2">>, <<"secret", "2">>, <<"secret", "g", "2">>} }

\* A generator: `at` is "made" before its first next(), "yielded" while it
\* is suspended at a yield, "returned" after it has ended, and the
\* exception after it has raised one; `node` is the node of the last yield.
\* Two fields are kept for the comparison with runs one after the other:
\* `before`, the grades of the moment the generator was made, and `mixed`,
\* whether it was advanced while the other generator was suspended at a
\* yield.
Iterator(testcase, grade, before) ==
    [at |-> "made", before |-> before, grade |-> grade, mixed |-> FALSE,
     node |-> testcase, testcase |-> testcase]

Suspended(it) == it.at \in {"made", "yielded"}

\* next(it) of a generator suspended in _infer_grade_upwards, or at the
\* yield of set_grade: the body of _infer_grade_upwards(it.node) up to its
\* yield, its end or its exception
infer_grade_upwards_next(g, it) ==
    IF it.node = root
    THEN [grades |-> g, it |-> [it EXCEPT !.at = "returned"]]
    ELSE LET par == parent(it.node)
             siblings == Children(leaves, par)
         IN IF \E i \in DOMAIN siblings : IsTuple(g[siblings[i]])
            THEN [grades |-> g, it |-> [it EXCEPT !.at = "AttributeError"]]
            ELSE IF ~CanInfer(g, siblings, settings[par])
            THEN [grades |-> g, it |-> [it EXCEPT !.at = "returned"]]
            ELSE LET aggregated_grade ==
                        aggregate(par, GradedOf(g, siblings), settings[par])
                 IN IF g[par] # None
                    THEN LET differ == GradesDiffer(g[par], aggregated_grade)
                         IN [grades |-> g,
                             it |-> [it EXCEPT !.at = IF differ = "ok" THEN "returned"
                                                      ELSE differ]]
                    ELSE [grades |-> [g EXCEPT ![par] = aggregated_grade],
                          it |-> [it EXCEPT !.node = par]]

\* Mutant: the generator ends after the first group it has yielded.
set_grade_next_one_group(g, it) ==
    IF it.at = "made"
    THEN IF it.testcase \notin leaves
         THEN [grades |-> g, it |-> [it EXCEPT !.at = "KeyError"]]
         ELSE IF g[it.testcase] # None
         THEN [grades |-> g, it |-> [it EXCEPT !.at = "ValueError: already set"]]
         ELSE [grades |-> [g EXCEPT ![it.testcase] = AsGrade(it.testcase, it.grade)],
               it |-> [it EXCEPT !.at = "yielded"]]
    ELSE IF it.node # it.testcase
    THEN [grades |-> g, it |-> [it EXCEPT !.at = "returned"]]
    ELSE infer_grade_upwards_next(g, it)

\* next(it) on the grades g: the generator runs to its next yield, to its
\* end or to an exception
set_grade_next(g, it) ==
    IF it.at = "made"
    THEN IF it.testcase \notin leaves
         THEN [grades |-> g, it |-> [it EXCEPT !.at = "KeyError"]]
         ELSE IF g[it.testcase] # None
         THEN [grades |-> g, it |-> [it EXCEPT !.at = "ValueError: already set"]]
         ELSE [grades |-> [g EXCEPT ![it.testcase] = AsGrade(it.testcase, it.grade)],
               it |-> [it EXCEPT !.at = "yielded"]]
    ELSE infer_grade_upwards_next(g, it)

InitIterators ==
    /\ leaves \in IteratedTrees
    /\ testdata_settings \in [ancestors(leaves) -> OnRejects]
    /\ settings = TreeSettings(leaves, testdata_settings)
    /\ grades = [node \in Nodes(leaves) |-> None]
    /\ result = [outcome |-> "new", yielded |-> <<>>]
    /\ grader = "answers"
    /\ iterators = <<>>
    /\ NoExpectations

\* grades[testcase] = grade, while no iterator is held
SetItemAlone(testcase, grade) ==
    /\ iterators = <<>>
    /\ SetItem(testcase, grade)

\* first = grades.set_grade(...); second = grades.set_grade(...): the last
\* call has returned a generator, and nothing of either has run yet
MakeIterators(first, second) ==
    /\ iterators = <<>>
    /\ first.testcase # second.testcase
    /\ iterators' = << Iterator(first.testcase, first.grade, grades),
                       Iterator(second.testcase, second.grade, grades) >>
    /\ result' = [outcome |-> "generator", yielded |-> <<>>]
    /\ UNCHANGED <<leaves, testdata_settings, settings, grades, grader, expectVars>>

\* next(iterators[i])
Advance(i) ==
    /\ i \in DOMAIN iterators
    /\ Suspended(iterators[i])
    /\ LET run == set_grade_next(grades, iterators[i])
           mixed == iterators[i].mixed \/ iterators[3 - i].at = "yielded"
       IN /\ grades' = run.grades
          /\ iterators' = [iterators EXCEPT ![i] = [run.it EXCEPT !.mixed = mixed]]
    /\ UNCHANGED <<leaves, testdata_settings, settings, result, grader, expectVars>>

\* the calls of set_grade from which the iterators are made
Calls == [grade : IteratedGrades, testcase : leaves]

NextIterators ==
    \/ \E testcase \in leaves, grade \in IteratedGrades : SetItemAlone(testcase, grade)
    \/ \E first \in Calls, second \in Calls : MakeIterators(first, second)
    \/ \E i \in 1..2 : Advance(i)

SpecIterators == InitIterators /\ [][NextIterators]_vars

\* C33: whatever on_reject is for each group, no assignment in a sequence
\* of assignments, each made to its end before the next, ends with the
\* error that the grade inferred for a group differs from the grade the
\* group has.
C33_NoConflict == result.outcome # "ValueError: inferred grade differs"

\* a testcase of secret, which breaks under a root that continues, has been
\* assigned after secret was graded: the grade of secret was inferred again
\* and found equal
C33_Witness ==
    /\ result.outcome = "ok"
    /\ Len(result.yielded) = 1
    /\ parent(result.yielded[1][1]) = <<"secret">>
    /\ settings[<<"secret">>].on_reject = "break"
    /\ settings[root].on_reject = "continue"
    /\ CanInfer(grades, Children(leaves, <<"secret">>), settings[<<"secret">>])
    /\ grades[<<"secret">>] # None

\* the grades that the testcases may have in the end: those they have, and
\* any grade for a testcase that has none yet
Completions ==
    { f \in [leaves -> { AsGrade(t, a) : t \in leaves, a \in IteratedGrades }] :
        \A t \in leaves :
            IF grades[t] # None THEN f[t] = grades[t]
            ELSE \E a \in IteratedGrades : f[t] = AsGrade(t, a) }

\* the grades after the testcases of the set have been assigned their
\* grades of f, one after the other in one fixed order, starting from g
RECURSIVE AssignAll(_, _, _)
AssignAll(g, f, cases) ==
    IF cases = {} THEN g
    ELSE LET t == CHOOSE x \in cases : TRUE
         IN AssignAll(
                infer_grade_upwards(leaves, settings, [g EXCEPT ![t] = f[t]], t).grades,
                f, cases \ {t})

\* the grades of all nodes after the assignment of f in that order
FinalGrades(f) ==
    AssignAll([node \in Nodes(leaves) |-> None], f, leaves)

\* C34: in whatever order testcases have been assigned, the grade that a
\* node has is the grade that the node has after all testcases have been
\* assigned in one fixed order, whatever grades the remaining testcases get;
\* and once every testcase has been assigned every node has that grade.
C34_OrderIndependent ==
    iterators = <<>> =>
        \A f \in Completions :
            LET final == FinalGrades(f)
            IN /\ \A node \in DOMAIN grades :
                    grades[node] # None => grades[node] = final[node]
               /\ (\A t \in leaves : grades[t] # None) => grades = final

\* a group has its grade while one of its testcases, which comes later
\* than a rejected one, has none
C34_Witness ==
    /\ iterators = <<>>
    /\ \E t \in leaves :
            /\ grades[t] = None
            /\ grades[parent(t)] # None
            /\ settings[parent(t)].on_reject = "break"

\* C35: a successful assignment gives a grade to one testcase that had
\* none; every node that is neither that testcase nor one of its ancestors
\* keeps what it had for a grade, and the tree, the settings and the
\* expectations of the nodes stay as they are.
C35_Frame ==
    [][ result'.outcome = "ok" =>
          /\ \E t \in leaves :
                /\ grades[t] = None
                /\ grades'[t] # None
                /\ \A node \in DOMAIN grades \ ({t} \cup Parents(t)) :
                        grades'[node] = grades[node]
          /\ leaves' = leaves
          /\ settings' = settings
          /\ Grades_expectations' = Grades_expectations
      ]_vars

\* secret/2 has been assigned in Grades built with expectations, in which
\* sample/2 and its group sample have grades
C35_Witness ==
    /\ result.outcome = "ok"
    /\ Grades_expectations # NoneArg
    /\ result.yielded[1][1] = <<"secret", "2">>
    /\ <<"sample", "2">> \in leaves
    /\ grades[<<"sample", "2">>] # None
    /\ grades[<<"sample">>] # None

\* the outcome of the two assignments made one after the other, each to its
\* end, in the order in which the iterators were made
OneAfterTheOther ==
    LET first == iterators[1]
        second == iterators[2]
        one == infer_grade_upwards(
                  leaves, settings,
                  [first.before EXCEPT
                      ![first.testcase] = AsGrade(first.testcase, first.grade)],
                  first.testcase)
    IN infer_grade_upwards(
          leaves, settings,
          [one.grades EXCEPT
              ![second.testcase] = AsGrade(second.testcase, second.grade)],
          second.testcase)

\* both testcases had no grade when the iterators were made
BothUngraded ==
    \A i \in DOMAIN iterators : iterators[i].before[iterators[i].testcase] = None

\* no iterator is suspended: each has returned or raised
Completed == iterators # <<>> /\ \A i \in DOMAIN iterators : ~Suspended(iterators[i])

\* C36: however the steps of two iterators for two testcases without
\* grades are interleaved, neither raises the error that an inferred grade
\* differs from the grade a group has, and when neither is suspended any
\* more both have returned and the grades are those of the two assignments
\* made one after the other.
C36_Interleaved ==
    BothUngraded =>
        /\ \A i \in DOMAIN iterators :
                iterators[i].at \in {"made", "yielded", "returned"}
        /\ Completed => grades = OneAfterTheOther.grades

\* both iterators have returned, one of them was advanced while the other
\* was suspended at a yield, and the root has been graded
C36_Witness ==
    /\ Completed
    /\ BothUngraded
    /\ \A i \in DOMAIN iterators : iterators[i].at = "returned"
    /\ \E i \in DOMAIN iterators : iterators[i].mixed
    /\ grades[root] # None
    /\ grades[root] # iterators[1].before[root]

\* C37: the construction of Expectations from a dict leaves the dict as it
\* was, and a second construction from the same dict, which succeeds when
\* the first does, makes an object with the same verdicts and scores.
C37_ArgumentKept ==
    [][ (Constructs /\ IsDict(expectations)) =>
          /\ expectations' = expectations
          /\ result'.outcome = "new" =>
                LET again == Expectations_init(
                                expectations', expected_results, dirname,
                                testdata_settings)
                IN again.outcome = "ok" /\ again.obj = specified'
      ]_vars

====
